---- MODULE Spec2Model ----
(***************************************************************************)
(* A model of the job-dispatch and notification server:                    *)
(*   - job_system/registry.py   JobRegistry (job table, executor,          *)
(*                              cancellation, broadcast sink)               *)
(*   - ws_manager/manager.py    WebSocketManager (connections,             *)
(*                              subscriptions, broadcast)                   *)
(*   - ws_manager/router.py     the protocol handlers joining the two      *)
(*                                                                         *)
(* Granularity: the server runs on one asyncio event loop, so a coroutine  *)
(* is atomic between two awaits.  Every action below is one such stretch.  *)
(***************************************************************************)
EXTENDS Integers, Sequences, FiniteSets, TLC

\* ------------------------------------------------------------------ bounds
MaxTasks == 2          \* executions scheduled (asyncio.create_task) in a run
MaxConcurrency == 2    \* largest max_concurrency the registry is initialized with
MaxConns == 2          \* websocket connections opened in a run
MaxBcasts == 1         \* broadcast_to_job coroutines running at a time
MaxInFlight == 2       \* the same, where the order of two broadcasts is studied
MaxReconnects == 3     \* connections opened in a run where a reconnect is studied
MaxRouterConns == 1    \* connections opened in a run of the whole server
MaxRouterTasks == 1    \* executions scheduled in a run of the whole server
MaxRequesterConns == 2 \* connections of the client that requests new executions
MaxRequesterTasks == 2 \* executions its requests schedule
MaxQueue == 1          \* broadcast coroutines queued on the loop and not started

\* --------------------------------------------------------------- constants
None == "None"
NoJobId == <<>>        \* no job id (a call that derives none)
NoFile == <<>>         \* no cache file at the path

PENDING == "pending"
PROCESSING == "processing"
COMPLETED == "completed"
FAILED == "failed"
CANCELLED == "cancelled"
\* the intermediate status a handler reports through update_status
GENERATED == "generated"

JobStatus == {PENDING, PROCESSING, COMPLETED, FAILED, CANCELLED}
FinalStatuses == {COMPLETED, FAILED, CANCELLED}

\* task types a client may name; only the first is registered at startup
TaskTypes == {"text_to_image", "unknown"}
job_types == {"text_to_image"}

\* Parameter maps, as insertion-ordered lists of <<key, value>> pairs
\* (keys 1, 2 stand for two parameter names).
ParamMaps == { <<<<2, 2>>, <<1, 1>>>>, <<<<1, 2>>>> }

RECURSIVE SortedInsert(_, _)
SortedInsert(kv, s) ==
    IF s = <<>> THEN <<kv>>
    ELSE IF kv[1] <= Head(s)[1] THEN <<kv>> \o s
    ELSE <<Head(s)>> \o SortedInsert(kv, Tail(s))

RECURSIVE SortKeys(_)
SortKeys(p) == IF p = <<>> THEN <<>> ELSE SortedInsert(Head(p), SortKeys(Tail(p)))

\* a job id made from the parameter map as it was written, keys unsorted
GenerateJobIdUnsorted(params) == params

\* TextToImageJob.generate_job_id: sha256 of json.dumps(params, sort_keys=True).
\* The digest is modelled by the canonical text it is computed from.
generate_job_id(params) == SortKeys(params)

JobIds == { generate_job_id(p) : p \in ParamMaps }

\* client identities a create_job call may carry (None: anonymous)
RegistryClients == {None, "k1"}

\* what a handler's execute can return / raise
Results == {"img"}
HandlerErrors == {"Missing 'prompt' in parameters"}
CancelledByUser == "Job cancelled by user"

\* ---------------------------------------------------------------- state
VARIABLES
    max_concurrency,   \* JobRegistry._max_concurrency
    jobs,              \* JobRegistry._jobs: job_id -> entry
    cancelled_jobs,    \* JobRegistry._cancelled_jobs
    client_jobs,       \* JobRegistry._client_jobs: client_id -> set of job_ids
    semaphores,        \* every asyncio.Semaphore object created so far
    semaphore,         \* JobRegistry._semaphore: index into semaphores, 0 for None
    tasks,             \* the _execute_job tasks created so far, in creation order
    cache,             \* the cache directory: job_id -> blob (None: no file)
    gpu_lock,          \* resources.gpu_lock, the asyncio.Lock of the GPU
    sink,              \* the messages the last step handed to the broadcast callback
    ret,               \* the registry call the last step made and what it returned
    conns,                  \* the websocket endpoints opened so far, in order
    active_connections,     \* WebSocketManager.active_connections
    client_connections,     \* WebSocketManager.client_connections
    connection_client_ids,  \* WebSocketManager.connection_client_ids
    job_subscriptions,      \* WebSocketManager.job_subscriptions
    client_subscriptions,   \* WebSocketManager.client_subscriptions
    bcasts,                 \* the broadcast_to_job coroutines that are running
    raised,                 \* the exception the last step's coroutine ended with
    undelivered,            \* <<connection, job, status>>: the broadcast that ended in the
                            \* last step did not reach the connection
    wire,                   \* the frames the last step handed to send_text
    recv,                   \* the frame the last step's endpoint took from receive_text
    loopq,                  \* the broadcast_to_job coroutines run_coroutine_threadsafe
                            \* has queued on the loop and that have not started
    mutex                   \* JobRegistry._lock and what the call that holds it is doing

regVars == <<max_concurrency, jobs, cancelled_jobs, client_jobs, semaphores,
             semaphore, tasks, cache, gpu_lock, sink, ret>>

wsVars == <<conns, active_connections, client_connections, connection_client_ids,
            job_subscriptions, client_subscriptions, bcasts, raised, undelivered,
            wire>>

sysVars == <<recv, loopq, mutex>>

vars == <<regVars, wsVars, sysVars>>

\* ---------------------------------------------------------- cache store
\* a serialization that loses the result
SerializeLossy(result) == <<"json", None>>

\* BaseJob.serialize_result / deserialize_result (JSON text of the result)
serialize_result(result) == <<"json", result>>
deserialize_result(data) == data[2]

cache_exists(job_id) == job_id \in DOMAIN cache /\ cache[job_id] # NoFile
read_cache(job_id) == cache[job_id]

\* ------------------------------------------------------------- gpu lock
\* asyncio.Lock(): _locked, the tasks queued in _waiters in the order of their
\* acquire calls, the waiter release() resolved the future of (0: none), and
\* the tasks that are inside the "async with gpu_lock" block of execute
NewLock == [locked |-> FALSE, waiters |-> <<>>, woken |-> 0, inside |-> {}]

\* ------------------------------------------------------ registry mutex
\* threading.Lock(), not held; call: the arguments of the create_job call
\* that is under way
NoArgs == [task_type |-> None, params |-> <<>>, client_id |-> None]
Unlocked == [held |-> FALSE, doing |-> "idle", call |-> NoArgs]

\* ------------------------------------------------------------ messages
\* a status message that leaves the error out
StatusMessageDropsError(job_id, status, result, error) ==
    [type |-> "job_status", job_id |-> job_id, status |-> status,
     result |-> result, error |-> None]

StatusMessage(job_id, status, result, error) ==
    [type |-> "job_status", job_id |-> job_id, status |-> status,
     result |-> result, error |-> error]

ProgressMessage(job_id) ==
    [type |-> "job_progress", job_id |-> job_id, status |-> None,
     result |-> None, error |-> None]

\* ------------------------------------------------------------ registry
PendingEntry(job_id, task_type, params, client_id) ==
    [id |-> job_id, task_type |-> task_type, params |-> params,
     status |-> PENDING, result |-> None, error |-> None,
     created_at |-> "t", completed_at |-> None, client_id |-> client_id]

\* the entry built from a cache blob; it has no "error" and no "client_id" key,
\* which every reader takes as None (dict.get)
CachedEntry(job_id, task_type, params, result) ==
    [id |-> job_id, task_type |-> task_type, params |-> params,
     status |-> COMPLETED, result |-> result, error |-> None,
     created_at |-> "t", completed_at |-> "t", client_id |-> None]

\* the entry field of ret when the call returned no entry
NoEntry ==
    [id |-> NoJobId, task_type |-> None, params |-> <<>>,
     status |-> None, result |-> None, error |-> None,
     created_at |-> None, completed_at |-> None, client_id |-> None]

Return(op, job_id, entry, ok) == [op |-> op, id |-> job_id, entry |-> entry, ok |-> ok]
NoCall == Return("none", NoJobId, NoEntry, FALSE)

\* an _execute_job coroutine: pc is where it stands, sem the semaphore object
\* it took from JobRegistry._semaphore; cancel_req records that a cancel_job
\* call was accepted for its job while it was executing and the entry was
\* processing
NewTask(job_id) == [job_id |-> job_id, pc |-> "start", sem |-> 0, cancel_req |-> FALSE]
\* a coroutine that ran to its end
DoneTask == [job_id |-> NoJobId, pc |-> "done", sem |-> 0, cancel_req |-> FALSE]

AddClientJob(client_id, job_id) ==
    IF client_id = None THEN client_jobs
    ELSE IF client_id \in DOMAIN client_jobs
    THEN [client_jobs EXCEPT ![client_id] = @ \cup {job_id}]
    ELSE (client_id :> {job_id}) @@ client_jobs

\* a create_job that installs the fresh pending entry without scheduling it
CreateFreshUnscheduled(task_type, params, client_id) ==
    LET job_id == generate_job_id(params) IN
    /\ Len(tasks) < MaxTasks
    /\ jobs' = (job_id :> PendingEntry(job_id, task_type, params, client_id)) @@ jobs
    /\ client_jobs' = AddClientJob(client_id, job_id)
    /\ tasks' = tasks
    /\ ret' = Return("create_job", job_id, jobs'[job_id], TRUE)
    /\ sink' = <<>>
    /\ UNCHANGED <<gpu_lock, max_concurrency, cancelled_jobs, semaphores, semaphore, cache>>

\* create_job, the branch that installs a fresh pending entry and schedules
\* its execution (registry.py 188-211)
CreateFresh(task_type, params, client_id) ==
    LET job_id == generate_job_id(params) IN
    /\ Len(tasks) < MaxTasks
    /\ jobs' = (job_id :> PendingEntry(job_id, task_type, params, client_id)) @@ jobs
    /\ client_jobs' = AddClientJob(client_id, job_id)
    /\ tasks' = Append(tasks, NewTask(job_id))
    /\ ret' = Return("create_job", job_id, jobs'[job_id], TRUE)
    /\ sink' = <<>>
    /\ UNCHANGED <<gpu_lock, max_concurrency, cancelled_jobs, semaphores, semaphore, cache>>

\* a create_job that schedules an execution although the cache blob was read
CreateCachedSchedules(task_type, params) ==
    LET job_id == generate_job_id(params)
        entry == CachedEntry(job_id, task_type, params,
                             deserialize_result(read_cache(job_id)))
    IN
    /\ jobs' = (job_id :> entry) @@ jobs
    /\ ret' = Return("create_job", job_id, entry, TRUE)
    /\ sink' = <<>>
    /\ tasks' = IF Len(tasks) < MaxTasks THEN Append(tasks, NewTask(job_id)) ELSE tasks
    /\ UNCHANGED <<gpu_lock, max_concurrency, cancelled_jobs, client_jobs, semaphores,
                   semaphore, cache>>

\* create_job, the branch that installs a completed entry from the cache blob
CreateCached(task_type, params) ==
    LET job_id == generate_job_id(params)
        entry == CachedEntry(job_id, task_type, params,
                             deserialize_result(read_cache(job_id)))
    IN
    /\ jobs' = (job_id :> entry) @@ jobs
    /\ ret' = Return("create_job", job_id, entry, TRUE)
    /\ sink' = <<>>
    /\ UNCHANGED <<gpu_lock, max_concurrency, cancelled_jobs, client_jobs, semaphores,
                   semaphore, tasks, cache>>

\* a create_job that schedules an execution although it returns the existing entry
CreateExistingSchedules(job_id) ==
    /\ ret' = Return("create_job", job_id, jobs[job_id], TRUE)
    /\ sink' = <<>>
    /\ tasks' = IF Len(tasks) < MaxTasks THEN Append(tasks, NewTask(job_id)) ELSE tasks
    /\ UNCHANGED <<gpu_lock, max_concurrency, jobs, cancelled_jobs, client_jobs, semaphores,
                   semaphore, cache>>

\* create_job, the branches that return the existing entry
CreateExisting(job_id) ==
    /\ ret' = Return("create_job", job_id, jobs[job_id], TRUE)
    /\ sink' = <<>>
    /\ UNCHANGED <<gpu_lock, max_concurrency, jobs, cancelled_jobs, client_jobs, semaphores,
                   semaphore, tasks, cache>>

\* a create_job that takes the blob's entry although reading it raised
CreateJobTrustsBlob(task_type, params, client_id, readOk) ==
    LET job_id == generate_job_id(params) IN
    IF task_type \notin job_types
    THEN /\ ret' = Return("create_job", NoJobId, NoEntry, FALSE)
         /\ sink' = <<>>
         /\ UNCHANGED <<gpu_lock, max_concurrency, jobs, cancelled_jobs, client_jobs,
                        semaphores, semaphore, tasks, cache>>
    ELSE IF job_id \in DOMAIN jobs
            /\ jobs[job_id].status \in {PENDING, PROCESSING, COMPLETED}
    THEN CreateExisting(job_id)
    ELSE IF cache_exists(job_id)
    THEN CreateCached(task_type, params)
    ELSE CreateFresh(task_type, params, client_id)

\* JobRegistry.create_job(task_type, params, client_id); readOk: whether
\* reading and deserializing the cache blob succeeds or raises
CreateJob(task_type, params, client_id, readOk) ==
    LET job_id == generate_job_id(params) IN
    IF task_type \notin job_types
    THEN /\ ret' = Return("create_job", NoJobId, NoEntry, FALSE)
         /\ sink' = <<>>
         /\ UNCHANGED <<gpu_lock, max_concurrency, jobs, cancelled_jobs, client_jobs,
                        semaphores, semaphore, tasks, cache>>
    ELSE IF job_id \in DOMAIN jobs
            /\ jobs[job_id].status \in {PENDING, PROCESSING, COMPLETED}
    THEN CreateExisting(job_id)
    ELSE IF cache_exists(job_id) /\ readOk
    THEN CreateCached(task_type, params)
    ELSE CreateFresh(task_type, params, client_id)

\* the tasks after a cancel_job call was accepted for a processing entry
CancelRequested(job_id) ==
    [i \in 1..Len(tasks) |->
        IF tasks[i].job_id = job_id /\ tasks[i].pc = "executing"
        THEN [tasks[i] EXCEPT !.cancel_req = TRUE]
        ELSE tasks[i]]

\* a cancel_job that accepts the call for every entry, whatever its status
CancelJobAnyStatus(job_id) ==
    IF job_id \in DOMAIN jobs
    THEN /\ cancelled_jobs' = cancelled_jobs \cup {job_id}
         /\ jobs' = IF jobs[job_id].status = PENDING
                    THEN [jobs EXCEPT ![job_id].status = CANCELLED]
                    ELSE jobs
         /\ tasks' = IF jobs[job_id].status = PROCESSING
                     THEN CancelRequested(job_id) ELSE tasks
         /\ ret' = Return("cancel_job", job_id, NoEntry, TRUE)
         /\ sink' = <<>>
         /\ UNCHANGED <<gpu_lock, max_concurrency, client_jobs, semaphores, semaphore, cache>>
    ELSE /\ ret' = Return("cancel_job", job_id, NoEntry, FALSE)
         /\ sink' = <<>>
         /\ UNCHANGED <<gpu_lock, max_concurrency, jobs, cancelled_jobs, client_jobs,
                        semaphores, semaphore, tasks, cache>>

\* JobRegistry.cancel_job(job_id)
CancelJob(job_id) ==
    IF job_id \in DOMAIN jobs /\ jobs[job_id].status \in {PENDING, PROCESSING}
    THEN /\ cancelled_jobs' = cancelled_jobs \cup {job_id}
         /\ jobs' = IF jobs[job_id].status = PENDING
                    THEN [jobs EXCEPT ![job_id].status = CANCELLED]
                    ELSE jobs
         /\ tasks' = IF jobs[job_id].status = PROCESSING
                     THEN CancelRequested(job_id) ELSE tasks
         /\ ret' = Return("cancel_job", job_id, NoEntry, TRUE)
         /\ sink' = <<>>
         /\ UNCHANGED <<gpu_lock, max_concurrency, client_jobs, semaphores, semaphore, cache>>
    ELSE /\ ret' = Return("cancel_job", job_id, NoEntry, FALSE)
         /\ sink' = <<>>
         /\ UNCHANGED <<gpu_lock, max_concurrency, jobs, cancelled_jobs, client_jobs,
                        semaphores, semaphore, tasks, cache>>

\* JobRegistry.set_max_concurrency(n): the bound is stored and the semaphore
\* reference dropped; the next _execute_job makes a new Semaphore(n), and the
\* tasks that hold or wait for the old object keep it
SetMaxConcurrency(n) ==
    /\ max_concurrency' = n
    /\ semaphore' = 0
    /\ ret' = Return("set_max_concurrency", NoJobId, NoEntry, FALSE)
    /\ sink' = <<>>
    /\ UNCHANGED <<gpu_lock, jobs, cancelled_jobs, client_jobs, semaphores, tasks, cache>>

\* JobRegistry.is_cancelled
is_cancelled(job_id) == job_id \in cancelled_jobs

\* ------------------------------------------------------------ executor
\* asyncio.Semaphore.locked(): no permit left, or somebody is queued
locked(s) == s.value = 0 \/ s.waiters # <<>>

\* the first queued task whose future is not yet resolved (0: none)
NextWaiter(s, tks) ==
    LET idx == { i \in 1..Len(s.waiters) : tks[s.waiters[i]].pc = "waiting" } IN
    IF idx = {} THEN 0
    ELSE s.waiters[CHOOSE i \in idx : \A k \in idx : i <= k]

\* a release that keeps the permit when nobody is queued
ReleaseKeepsPermit(s, tks) == s.value

\* asyncio.Semaphore.release(): one permit back, then _wake_up_next() hands it
\* to the first waiter whose future is still pending
ReleaseValue(s, tks) == IF NextWaiter(s, tks) = 0 THEN s.value + 1 ELSE s.value

Remove(seq, x) == SelectSeq(seq, LAMBDA y : y # x)

\* registry.py 219-220: the semaphore objects after "create it if it is None"
MadeSemaphores ==
    IF semaphore = 0
    THEN Append(semaphores, [value |-> max_concurrency, waiters |-> <<>>])
    ELSE semaphores

CurrentSemaphore == IF semaphore = 0 THEN Len(semaphores) + 1 ELSE semaphore

\* the status written when a task has the permit (registry.py 224-226)
EnterJobs(job_id) ==
    IF job_id \in DOMAIN jobs
    THEN [jobs EXCEPT ![job_id].status = PROCESSING]
    ELSE jobs

\* the event loop runs the first step of the tasks in the order of their
\* creation (asyncio.create_task, registry.py 209)
FirstToStart(t) ==
    /\ tasks[t].pc = "start"
    /\ \A u \in 1..(t - 1) : tasks[u].pc # "start"

\* an _execute_job that enters without taking a permit from the semaphore
TaskStartNoSemaphore(t) ==
    LET job_id == tasks[t].job_id
        cur == CurrentSemaphore
    IN
    /\ FirstToStart(t)
    /\ semaphore' = cur
    /\ semaphores' = MadeSemaphores
    /\ jobs' = EnterJobs(job_id)
    /\ sink' = <<StatusMessage(job_id, PROCESSING, None, None)>>
    /\ tasks' = [tasks EXCEPT ![t].pc = "executing", ![t].sem = cur]
    /\ ret' = NoCall
    /\ UNCHANGED <<gpu_lock, max_concurrency, cancelled_jobs, client_jobs, cache>>

\* _execute_job from its first step to the first await inside execute, when
\* the semaphore has a free permit: status processing, broadcast, execute runs
TaskStartAcquire(t) ==
    LET job_id == tasks[t].job_id
        cur == CurrentSemaphore
    IN
    /\ FirstToStart(t)
    /\ ~locked(MadeSemaphores[cur])
    /\ semaphore' = cur
    /\ semaphores' = [MadeSemaphores EXCEPT ![cur].value = @ - 1]
    /\ jobs' = EnterJobs(job_id)
    /\ sink' = <<StatusMessage(job_id, PROCESSING, None, None)>>
    /\ tasks' = [tasks EXCEPT ![t].pc = "executing", ![t].sem = cur]
    /\ ret' = NoCall
    /\ UNCHANGED <<gpu_lock, max_concurrency, cancelled_jobs, client_jobs, cache>>

\* _execute_job from its first step to the await inside Semaphore.acquire,
\* when the semaphore is locked: the task queues
TaskStartWait(t) ==
    LET cur == CurrentSemaphore IN
    /\ FirstToStart(t)
    /\ locked(MadeSemaphores[cur])
    /\ semaphore' = cur
    /\ semaphores' = [MadeSemaphores EXCEPT ![cur].waiters = Append(@, t)]
    /\ tasks' = [tasks EXCEPT ![t].pc = "waiting", ![t].sem = cur]
    /\ ret' = NoCall
    /\ sink' = <<>>
    /\ UNCHANGED <<gpu_lock, max_concurrency, jobs, cancelled_jobs, client_jobs, cache>>

\* a queued task resumes with the permit release() handed it
TaskResume(t) ==
    LET job_id == tasks[t].job_id
        cur == tasks[t].sem
    IN
    /\ tasks[t].pc = "woken"
    /\ semaphores' = [semaphores EXCEPT ![cur].waiters = Remove(@, t)]
    /\ jobs' = EnterJobs(job_id)
    /\ sink' = <<StatusMessage(job_id, PROCESSING, None, None)>>
    /\ tasks' = [tasks EXCEPT ![t].pc = "executing"]
    /\ ret' = NoCall
    /\ UNCHANGED <<gpu_lock, max_concurrency, cancelled_jobs, client_jobs, semaphore, cache>>

\* the handler reports a progress tick: _broadcast_progress
HandlerProgress(t) ==
    /\ tasks[t].pc = "executing"
    /\ sink' = <<ProgressMessage(tasks[t].job_id)>>
    /\ ret' = NoCall
    /\ UNCHANGED <<gpu_lock, max_concurrency, jobs, cancelled_jobs, client_jobs, semaphores,
                   semaphore, tasks, cache>>

\* JobRegistry._update_job_status(job_id, status, extra_data): the table part
UpdateJobStatus(job_id, status) ==
    IF job_id \in DOMAIN jobs /\ jobs[job_id].status \notin FinalStatuses
    THEN [jobs EXCEPT ![job_id].status = status]
    ELSE jobs

\* a status update that announces the job as completed while it executes
HandlerStatusCompleted(t) ==
    LET job_id == tasks[t].job_id IN
    /\ tasks[t].pc = "executing"
    /\ jobs' = UpdateJobStatus(job_id, GENERATED)
    /\ sink' = <<StatusMessage(job_id, COMPLETED, "extra", None)>>
    /\ ret' = NoCall
    /\ UNCHANGED <<gpu_lock, max_concurrency, cancelled_jobs, client_jobs, semaphores,
                   semaphore, tasks, cache>>

\* the handler calls update_status(GENERATED, extra): on_status_update
HandlerStatus(t) ==
    LET job_id == tasks[t].job_id IN
    /\ tasks[t].pc = "executing"
    /\ jobs' = UpdateJobStatus(job_id, GENERATED)
    /\ sink' = <<StatusMessage(job_id, GENERATED, "extra", None)>>
    /\ ret' = NoCall
    /\ UNCHANGED <<gpu_lock, max_concurrency, cancelled_jobs, client_jobs, semaphores,
                   semaphore, tasks, cache>>

\* the tasks after task t left the semaphore block: t is done and the first
\* pending waiter of its semaphore has its future resolved
TasksAfterRelease(t) ==
    LET w == NextWaiter(semaphores[tasks[t].sem], tasks) IN
    [i \in 1..Len(tasks) |->
        IF i = t THEN DoneTask
        ELSE IF i = w THEN [tasks[i] EXCEPT !.pc = "woken"]
        ELSE tasks[i]]

SemaphoresAfterRelease(t) ==
    [semaphores EXCEPT ![tasks[t].sem].value = ReleaseValue(semaphores[tasks[t].sem], tasks)]

\* the except branch (registry.py 268-291) and the finally block
FinishError(t, error_msg) ==
    LET job_id == tasks[t].job_id
        status == IF job_id \in cancelled_jobs THEN CANCELLED ELSE FAILED
    IN
    /\ jobs' = IF job_id \in DOMAIN jobs
               THEN [jobs EXCEPT ![job_id].status = status,
                                 ![job_id].error = error_msg,
                                 ![job_id].completed_at = "t"]
               ELSE jobs
    /\ sink' = <<StatusMessage(job_id, status, None, error_msg)>>
    /\ cache' = cache
    /\ cancelled_jobs' = cancelled_jobs \ {job_id}
    /\ tasks' = TasksAfterRelease(t)
    /\ semaphores' = SemaphoresAfterRelease(t)
    /\ ret' = NoCall
    /\ UNCHANGED <<max_concurrency, client_jobs, semaphore>>

\* the success path (registry.py 245-266) and the finally block;
\* writeOk: whether serializing and writing the cache blob succeeds
FinishSuccess(t, result, writeOk) ==
    LET job_id == tasks[t].job_id IN
    /\ jobs' = IF job_id \in DOMAIN jobs
               THEN [jobs EXCEPT ![job_id].status = COMPLETED,
                                 ![job_id].result = result,
                                 ![job_id].completed_at = "t"]
               ELSE jobs
    /\ cache' = IF writeOk THEN (job_id :> serialize_result(result)) @@ cache
                ELSE cache
    /\ sink' = <<StatusMessage(job_id, COMPLETED, result, None)>>
    /\ cancelled_jobs' = cancelled_jobs \ {job_id}
    /\ tasks' = TasksAfterRelease(t)
    /\ semaphores' = SemaphoresAfterRelease(t)
    /\ ret' = NoCall
    /\ UNCHANGED <<max_concurrency, client_jobs, semaphore>>

\* execute returns result: _execute_job runs to its end
ExecuteReturns(t, result, writeOk) ==
    /\ tasks[t].pc = "executing"
    /\ IF is_cancelled(tasks[t].job_id)
       THEN FinishError(t, CancelledByUser)
       ELSE FinishSuccess(t, result, writeOk)
    /\ gpu_lock' = gpu_lock

\* execute raises: _execute_job runs to its end
ExecuteRaises(t, error_msg) ==
    /\ tasks[t].pc = "executing"
    /\ FinishError(t, error_msg)
    /\ gpu_lock' = gpu_lock

\* ------------------------------------------- TextToImageJob.execute
\* an acquire that takes the lock whether or not it is held
LockTakenAnyway == TRUE

\* asyncio.Lock.acquire returns at once: the lock is not held and nobody waits
LockAvailable == ~gpu_lock.locked /\ gpu_lock.waiters = <<>>

\* execute has not reached "async with gpu_lock" (text_to_image_job.py 30-48)
BeforeSection(t) ==
    /\ tasks[t].pc = "executing"
    /\ t \notin gpu_lock.inside
    /\ \A i \in 1..Len(gpu_lock.waiters) : gpu_lock.waiters[i] # t

\* what execute can raise inside the block: the worker's cancellation probe
\* (t2i_model.py 153-157), and JobStatus.GENERATED, which the enumeration
\* does not have (text_to_image_job.py 81): AttributeError("GENERATED")
SectionErrors(t) ==
    {"GENERATED"} \cup (IF is_cancelled(tasks[t].job_id) THEN {CancelledByUser} ELSE {})

\* the registry left alone by a step inside execute that reports progress
ExecuteProgress(t) ==
    /\ sink' = <<ProgressMessage(tasks[t].job_id)>>
    /\ ret' = NoCall
    /\ UNCHANGED <<max_concurrency, jobs, cancelled_jobs, client_jobs, semaphores,
                   semaphore, tasks, cache>>

\* "async with gpu_lock" finds the lock free: execute reports the generating
\* stage and suspends in run_in_executor (text_to_image_job.py 48-67)
SectionEnter(t) ==
    /\ BeforeSection(t)
    /\ LockAvailable
    /\ gpu_lock' = [gpu_lock EXCEPT !.locked = TRUE, !.inside = @ \cup {t}]
    /\ ExecuteProgress(t)

\* "async with gpu_lock" finds the lock taken: execute queues on it
SectionWait(t) ==
    /\ BeforeSection(t)
    /\ ~LockAvailable
    /\ gpu_lock' = [gpu_lock EXCEPT !.waiters = Append(@, t)]
    /\ sink' = <<>>
    /\ ret' = NoCall
    /\ UNCHANGED <<max_concurrency, jobs, cancelled_jobs, client_jobs, semaphores,
                   semaphore, tasks, cache>>

\* the waiter release() woke resumes inside acquire and takes the lock
SectionResume(t) ==
    /\ gpu_lock.woken = t
    /\ gpu_lock' = [locked |-> TRUE, waiters |-> Remove(gpu_lock.waiters, t),
                    woken |-> 0, inside |-> gpu_lock.inside \cup {t}]
    /\ ExecuteProgress(t)

\* asyncio.Lock.release() as task t leaves the block: the lock is free and
\* the future of the first waiter is resolved
Released(t) ==
    [locked |-> FALSE, waiters |-> gpu_lock.waiters,
     woken |-> IF gpu_lock.waiters # <<>> THEN Head(gpu_lock.waiters) ELSE 0,
     inside |-> gpu_lock.inside \ {t}]

\* execute raises inside the block: __aexit__ releases the lock and
\* _execute_job runs its except branch to the end
SectionRaises(t, error_msg) ==
    /\ tasks[t].pc = "executing"
    /\ t \in gpu_lock.inside
    /\ FinishError(t, error_msg)
    /\ gpu_lock' = Released(t)

\* --------------------------------------------------- websocket manager
\* client identities a peer may present in the query string (None: anonymous)
WsClients == {None, "k1"}
\* correlation tokens a request may carry (None: absent)
RequestIds == {None, "r1"}

\* a websocket endpoint (router.websocket_endpoint): pc is where the coroutine
\* stands, transport whether frames can still be sent to the peer, old_ws the
\* earlier connection of the client that connect() closes (0: it found none),
\* subs the jobs it called subscribe for, asked the <<job, request_id>> of its
\* create_job requests that carried a token and were answered pending or
\* processing
NewConn(client_id) ==
    [client_id |-> client_id, pc |-> "accept", transport |-> "up", old_ws |-> 0,
     subs |-> {}, asked |-> {}]

\* subscribe()'s f"_ws_{id(websocket)}"
PseudoId(w) == "_ws_" \o ToString(w)

Without(f, keys) == [k \in DOMAIN f \ keys |-> f[k]]

\* dict.get(key) on the two connection maps (0 / None: no entry)
ConnectionOf(client_id) ==
    IF client_id \in DOMAIN client_connections THEN client_connections[client_id] ELSE 0
ClientIdOf(w) ==
    IF w \in DOMAIN connection_client_ids THEN connection_client_ids[w] ELSE None

\* a peer opens a websocket on /ws?client_id=...: the endpoint coroutine starts
EndpointOpens(client_id) ==
    /\ conns' = Append(conns, NewConn(client_id))
    /\ UNCHANGED <<active_connections, client_connections, connection_client_ids,
                   job_subscriptions, client_subscriptions, bcasts>>
    /\ raised' = None
    /\ undelivered' = {}
    /\ wire' = {}

OpenConnection(client_id) ==
    /\ Len(conns) < MaxConns
    /\ EndpointOpens(client_id)

\* connect(), manager.py 89-95: bind the connection to its client identity
RegisterConnection(w, client_id) ==
    /\ client_connections' = (client_id :> w) @@ client_connections
    /\ connection_client_ids' = (w :> client_id) @@ connection_client_ids
    /\ client_subscriptions' =
          IF client_id \in DOMAIN client_subscriptions THEN client_subscriptions
          ELSE (client_id :> {}) @@ client_subscriptions

\* connect(), from the return of accept() to its end or to the await of
\* old_ws.close() (manager.py 73-87)
ConnectAccepted(w) ==
    LET client_id == conns[w].client_id
        old_ws == ConnectionOf(client_id)
    IN
    /\ conns[w].pc = "accept"
    /\ conns[w].transport = "up"
    /\ IF client_id # None /\ old_ws # 0 /\ old_ws \in active_connections
       THEN /\ active_connections' = (active_connections \cup {w}) \ {old_ws}
            /\ connection_client_ids' = Without(connection_client_ids, {old_ws})
            /\ conns' = [conns EXCEPT ![w].pc = "close", ![w].old_ws = old_ws,
                                      ![old_ws].transport = "down"]
            /\ UNCHANGED <<client_connections, client_subscriptions>>
       ELSE IF client_id # None
       THEN /\ active_connections' = active_connections \cup {w}
            /\ RegisterConnection(w, client_id)
            /\ conns' = [conns EXCEPT ![w].pc = "open"]
       ELSE /\ active_connections' = active_connections \cup {w}
            /\ conns' = [conns EXCEPT ![w].pc = "open"]
            /\ UNCHANGED <<client_connections, connection_client_ids,
                           client_subscriptions>>
    /\ UNCHANGED <<job_subscriptions, bcasts>>
    /\ raised' = None
    /\ undelivered' = {}
    /\ wire' = {}

\* accept() raises because the peer is gone: the endpoint ends
ConnectFails(w) ==
    /\ conns[w].pc = "accept"
    /\ conns[w].transport = "down"
    /\ conns' = [conns EXCEPT ![w].pc = "closed"]
    /\ UNCHANGED <<active_connections, client_connections, connection_client_ids,
                   job_subscriptions, client_subscriptions, bcasts>>
    /\ raised' = None
    /\ undelivered' = {}
    /\ wire' = {}

\* connect(), from the return of old_ws.close() to its end
ConnectClosedOld(w) ==
    /\ conns[w].pc = "close"
    /\ RegisterConnection(w, conns[w].client_id)
    /\ conns' = [conns EXCEPT ![w].pc = "open"]
    /\ UNCHANGED <<active_connections, job_subscriptions, bcasts>>
    /\ raised' = None
    /\ undelivered' = {}
    /\ wire' = {}

\* the peer drops the transport
DropTransport(w) ==
    /\ conns[w].pc # "closed"
    /\ conns[w].transport = "up"
    /\ conns' = [conns EXCEPT ![w].transport = "down"]
    /\ UNCHANGED <<active_connections, client_connections, connection_client_ids,
                   job_subscriptions, client_subscriptions, bcasts>>
    /\ raised' = None
    /\ undelivered' = {}
    /\ wire' = {}

\* a disconnect that also drops the client's subscriptions
DisconnectForgets(w) ==
    LET client_id == ClientIdOf(w) IN
    /\ active_connections' = active_connections \ {w}
    /\ client_connections' =
          IF client_id # None /\ ConnectionOf(client_id) = w
          THEN Without(client_connections, {client_id})
          ELSE client_connections
    /\ connection_client_ids' =
          IF client_id # None THEN Without(connection_client_ids, {w})
          ELSE connection_client_ids
    /\ job_subscriptions' =
          [j \in DOMAIN job_subscriptions |->
             SelectSeq(job_subscriptions[j], LAMBDA it : it[1] # client_id)]
    /\ client_subscriptions' = Without(client_subscriptions, {client_id})

\* WebSocketManager.disconnect(websocket)
Disconnect(w) ==
    LET client_id == ClientIdOf(w) IN
    /\ active_connections' = active_connections \ {w}
    /\ client_connections' =
          IF client_id # None /\ ConnectionOf(client_id) = w
          THEN Without(client_connections, {client_id})
          ELSE client_connections
    /\ connection_client_ids' =
          IF client_id # None THEN Without(connection_client_ids, {w})
          ELSE connection_client_ids
    /\ UNCHANGED <<job_subscriptions, client_subscriptions>>

\* receive_text raises WebSocketDisconnect: the endpoint disconnects and ends
EndpointDisconnect(w) ==
    /\ conns[w].pc = "open"
    /\ conns[w].transport = "down"
    /\ Disconnect(w)
    /\ conns' = [conns EXCEPT ![w].pc = "closed"]
    /\ UNCHANGED <<bcasts>>
    /\ raised' = None
    /\ undelivered' = {}
    /\ wire' = {}

\* send_to_connection(websocket, message): a reply to the peer; a failed
\* send disconnects the connection
SendToConnection(w) ==
    /\ conns[w].pc = "open"
    /\ IF conns[w].transport = "up"
       THEN UNCHANGED <<active_connections, client_connections,
                        connection_client_ids, job_subscriptions,
                        client_subscriptions>>
       ELSE Disconnect(w)
    /\ UNCHANGED <<conns, bcasts>>
    /\ raised' = None
    /\ undelivered' = {}
    /\ wire' = {}

\* ---- subscriptions.  job_subscriptions[job_id] is a dict client_id ->
\* request_id; it is kept as the list of its <<client_id, request_id>> items in
\* insertion order, the order in which a dict is iterated.
HasKey(items, client_id) == \E i \in 1..Len(items) : items[i][1] = client_id
IndexOf(items, client_id) == CHOOSE i \in 1..Len(items) : items[i][1] = client_id

\* a store that keeps the token of the first subscribe call of a client
SetItemKeepsFirst(items, client_id, request_id) ==
    IF HasKey(items, client_id) THEN items
    ELSE Append(items, <<client_id, request_id>>)

\* dict item assignment: job_subscriptions[job_id][client_id] = request_id
SetItem(items, client_id, request_id) ==
    IF HasKey(items, client_id)
    THEN [items EXCEPT ![IndexOf(items, client_id)] = <<client_id, request_id>>]
    ELSE Append(items, <<client_id, request_id>>)

DelItem(items, client_id) == SelectSeq(items, LAMBDA it : it[1] # client_id)

ItemsOf(job_id) ==
    IF job_id \in DOMAIN job_subscriptions THEN job_subscriptions[job_id] ELSE <<>>

\* WebSocketManager.subscribe(job_id, websocket, request_id)
Subscribe(job_id, w, request_id) ==
    LET client_id == ClientIdOf(w)
        pseudo_id == PseudoId(w)
    IN
    IF client_id # None
    THEN /\ job_subscriptions' =
               (job_id :> SetItem(ItemsOf(job_id), client_id, request_id))
               @@ job_subscriptions
         /\ client_subscriptions' =
               IF client_id \in DOMAIN client_subscriptions
               THEN [client_subscriptions EXCEPT ![client_id] = @ \cup {job_id}]
               ELSE client_subscriptions
         /\ UNCHANGED <<client_connections, connection_client_ids>>
    ELSE /\ job_subscriptions' =
               (job_id :> SetItem(ItemsOf(job_id), pseudo_id, request_id))
               @@ job_subscriptions
         /\ connection_client_ids' = (w :> pseudo_id) @@ connection_client_ids
         /\ client_connections' = (pseudo_id :> w) @@ client_connections
         /\ client_subscriptions' =
               (pseudo_id :> ((IF pseudo_id \in DOMAIN client_subscriptions
                               THEN client_subscriptions[pseudo_id] ELSE {})
                              \cup {job_id}))
               @@ client_subscriptions

\* an unsubscribe that forgets the job's table and clears only the client's set
UnsubscribeKeepsJobTable(job_id, client_id) == job_subscriptions

\* the job_subscriptions table after unsubscribe(job_id, websocket)
UnsubscribedJobs(job_id, client_id) ==
    IF client_id # None /\ job_id \in DOMAIN job_subscriptions
    THEN IF DelItem(job_subscriptions[job_id], client_id) = <<>>
         THEN Without(job_subscriptions, {job_id})
         ELSE [job_subscriptions EXCEPT ![job_id] = DelItem(@, client_id)]
    ELSE job_subscriptions

\* ---- broadcast_to_job(job_id, message): one coroutine per message.
\* pos: items of the dict the for loop has taken; used: the size the dict
\* iterator saw when it was made; detached: the dict object it iterates was
\* removed from job_subscriptions (it is empty then); cur: the item whose
\* send_text is awaited; dead: dead_clients; owed: the connections that were
\* in service and subscribed when the broadcast started and have not been
\* sent the message yet; ahead: the send_text calls made earlier on the same
\* connection that are still awaited (a transport completes its writes in
\* the order of the calls); passed: the connections of owed that were handed a
\* later message of the job before this one; absent: the subscribers that had
\* no connection when the broadcast started; handed: the subscribers the
\* coroutine has sent a frame for; due: the <<connection, request_id>> of owed
\* and the tokens the connection asked with, less the frames handed.
NoItem == [client_id |-> None, ws |-> 0, request_id |-> None]

NewBcast(job_id, message, owed) ==
    [job_id |-> job_id, message |-> message, pc |-> "iter", pos |-> 0,
     used |-> Len(ItemsOf(job_id)), detached |-> FALSE, cur |-> NoItem,
     dead |-> {}, owed |-> owed, ahead |-> 0, passed |-> {}, handed |-> {},
     due |-> UNION { { <<w, a[2]>> : a \in { x \in conns[w].asked : x[1] = job_id } } :
                     w \in owed },
     absent |-> { ItemsOf(job_id)[n][1] : n \in { m \in 1..Len(ItemsOf(job_id)) :
                                                   ConnectionOf(ItemsOf(job_id)[m][1]) = 0 } }]

\* a loop that sends to the last connection a client presented when the
\* client has no connection bound
RECURSIVE IterateUnbound(_)
IterateUnbound(b) ==
    LET items == IF b.detached THEN <<>> ELSE ItemsOf(b.job_id) IN
    IF Len(items) # b.used THEN [b EXCEPT !.pc = "RuntimeError"]
    ELSE IF b.pos >= Len(items) THEN [b EXCEPT !.pc = "cleanup"]
    ELSE LET item == items[b.pos + 1]
             seen == { w \in 1..Len(conns) : conns[w].client_id = item[1] }
             ws == IF ConnectionOf(item[1]) # 0 THEN ConnectionOf(item[1])
                   ELSE IF seen = {} THEN 0
                   ELSE CHOOSE w \in seen : \A v \in seen : v <= w
         IN IF ws = 0 THEN IterateUnbound([b EXCEPT !.pos = @ + 1])
            ELSE [b EXCEPT !.pos = @ + 1, !.pc = "send",
                           !.cur = [client_id |-> item[1], ws |-> ws,
                                    request_id |-> item[2]]]

\* the for loop of broadcast_to_job from one "next item" to the next await:
\* the dict iterator raises RuntimeError when the dict changed size; clients
\* without a connection are skipped; the end of the dict leads to the cleanup
RECURSIVE Iterate(_)
Iterate(b) ==
    LET items == IF b.detached THEN <<>> ELSE ItemsOf(b.job_id) IN
    IF Len(items) # b.used THEN [b EXCEPT !.pc = "RuntimeError"]
    ELSE IF b.pos >= Len(items) THEN [b EXCEPT !.pc = "cleanup"]
    ELSE LET item == items[b.pos + 1]
             ws == ConnectionOf(item[1])
         IN IF ws = 0 THEN Iterate([b EXCEPT !.pos = @ + 1])
            ELSE [b EXCEPT !.pos = @ + 1, !.pc = "send",
                           !.cur = [client_id |-> item[1], ws |-> ws,
                                    request_id |-> item[2]]]

\* manager.py 201-208: evict the connection now bound to each dead client
DeadConnections(dead) ==
    { client_connections[c] : c \in dead \cap DOMAIN client_connections }

\* the identity a connection subscribes under
SubscriberId(w) ==
    IF conns[w].client_id # None THEN conns[w].client_id ELSE PseudoId(w)

IsSubscribed(client_id, job_id) == HasKey(ItemsOf(job_id), client_id)

\* a connection in service: accepted, transport up, and no later connection
\* presented the same identity
Established(w) ==
    /\ conns[w].pc = "open"
    /\ conns[w].transport = "up"
    /\ \A v \in 1..Len(conns) :
          v > w => conns[v].client_id = None \/ conns[v].client_id # conns[w].client_id

\* the connection is a reconnect of its client identity
Reconnected(w) ==
    /\ conns[w].client_id # None
    /\ \E v \in 1..Len(conns) : v < w /\ conns[v].client_id = conns[w].client_id

InService(job_id) ==
    { w \in 1..Len(conns) : Established(w) /\ IsSubscribed(SubscriberId(w), job_id) }

\* manager.py 188-196: the frame of a subscriber is a copy of the message with
\* request_id injected when the stored token is truthy, the message otherwise
Tagged(message, request_id) ==
    [type |-> message.type, job_id |-> message.job_id, status |-> message.status,
     result |-> message.result, error |-> message.error,
     request_id |-> IF request_id # None /\ request_id # "" THEN request_id ELSE None]

\* a frame handed to send_text: the connection, the subscriber it is sent for
\* (None for a reply), the text, and for a broadcast whether a later message
\* of the job was handed to the connection before (late), whether the
\* subscriber had no connection when the broadcast started (absent) and
\* whether the coroutine had sent a frame for the subscriber before (again)
Frame(ws, client_id, via, msg, late, absent, again) ==
    [ws |-> ws, client_id |-> client_id, via |-> via, msg |-> msg, late |-> late,
     absent |-> absent, again |-> again]

\* the coroutine b (after a send or at its start) runs to its next await or
\* to its end; i: its place in bcasts (0: it is new)
RunBroadcast(i, b) ==
    LET b1 == Iterate(b)
        ends == b1.pc # "send"
        dead == IF b1.pc = "cleanup" THEN b1.dead ELSE {}
        done_ws == IF i = 0 THEN 0 ELSE bcasts[i].cur.ws
        b2 == IF ends THEN b1
              ELSE [b1 EXCEPT !.ahead =
                      Cardinality({ k \in 1..Len(bcasts) :
                                      k # i /\ bcasts[k].cur.ws = b1.cur.ws }),
                              !.handed = @ \cup {b1.cur.ws},
                              !.due = @ \ {<<b1.cur.ws, b1.cur.request_id>>}]
        Other(k) ==
            LET o == bcasts[k]
                o1 == IF done_ws # 0 /\ o.cur.ws = done_ws
                      THEN [o EXCEPT !.ahead = @ - 1] ELSE o
            IN IF /\ ~ends
                  /\ (i = 0 \/ k < i)
                  /\ o.job_id = b1.job_id
                  /\ b1.cur.ws \in o.owed
                  /\ o.cur.ws # b1.cur.ws
               THEN [o1 EXCEPT !.passed = @ \cup {b1.cur.ws}]
               ELSE o1
    IN
    /\ bcasts' = IF ~ends
                 THEN (IF i = 0
                       THEN Append([k \in 1..Len(bcasts) |-> Other(k)], b2)
                       ELSE [k \in 1..Len(bcasts) |-> IF k = i THEN b2 ELSE Other(k)])
                 ELSE [k \in 1..(Len(bcasts) - (IF i = 0 THEN 0 ELSE 1)) |->
                         IF i = 0 \/ k < i THEN Other(k) ELSE Other(k + 1)]
    /\ raised' = IF b1.pc = "RuntimeError" THEN "RuntimeError" ELSE None
    /\ undelivered' =
          IF ends
          THEN { <<w, b1.job_id, b1.message.status>> :
                    w \in b1.owed \cap InService(b1.job_id) }
          ELSE {}
    /\ wire' =
          IF ends THEN {}
          ELSE { Frame(b1.cur.ws, b1.cur.client_id, "broadcast",
                       Tagged(b1.message, b1.cur.request_id),
                       b1.cur.ws \in b1.passed, b1.cur.client_id \in b1.absent,
                       b1.cur.ws \in b1.handed) }
    /\ active_connections' = active_connections \ DeadConnections(dead)
    /\ client_connections' =
          Without(client_connections, dead \cap DOMAIN client_connections)
    /\ connection_client_ids' = Without(connection_client_ids, DeadConnections(dead))
    /\ UNCHANGED <<job_subscriptions, client_subscriptions>>

\* broadcast_to_job starts: from its first line to its first await or its end
BroadcastBegins(job_id, message) ==
    /\ IF job_id \notin DOMAIN job_subscriptions
       THEN /\ UNCHANGED <<bcasts, active_connections, client_connections,
                           connection_client_ids, job_subscriptions,
                           client_subscriptions>>
            /\ raised' = None
            /\ undelivered' = {}
            /\ wire' = {}
       ELSE RunBroadcast(0, NewBcast(job_id, message, InService(job_id)))
    /\ UNCHANGED conns

BroadcastStart(job_id, message) ==
    /\ Len(bcasts) < MaxBcasts
    /\ BroadcastBegins(job_id, message)

\* the awaited send_text of coroutine i returns or raises, and the coroutine
\* runs on to its next await or to its end
BroadcastSent(i) ==
    LET b == bcasts[i]
        b1 == IF conns[b.cur.ws].transport = "up"
              THEN [b EXCEPT !.owed = @ \ {b.cur.ws}, !.cur = NoItem]
              ELSE [b EXCEPT !.dead = @ \cup {b.cur.client_id}, !.cur = NoItem]
    IN
    /\ b.ahead = 0
    /\ RunBroadcast(i, b1)
    /\ UNCHANGED conns

\* an unsubscribe(job_id, websocket) call; the dict iterators of the running
\* broadcasts see the deletion
CallUnsubscribe(job_id, w) ==
    LET client_id == ClientIdOf(w)
        idx == IF IsSubscribed(client_id, job_id)
               THEN IndexOf(ItemsOf(job_id), client_id) ELSE 0
    IN
    /\ conns[w].pc = "open"
    /\ conns[w].transport = "up"
    /\ job_subscriptions' = UnsubscribedJobs(job_id, client_id)
    /\ client_subscriptions' =
          IF client_id # None /\ client_id \in DOMAIN client_subscriptions
          THEN [client_subscriptions EXCEPT ![client_id] = @ \ {job_id}]
          ELSE client_subscriptions
    /\ bcasts' =
          [i \in 1..Len(bcasts) |->
             IF bcasts[i].job_id = job_id /\ idx # 0
             THEN [bcasts[i] EXCEPT
                     !.pos = IF ~bcasts[i].detached /\ idx <= @ THEN @ - 1 ELSE @,
                     !.detached = @ \/ job_id \notin DOMAIN job_subscriptions',
                     !.owed = { v \in @ : SubscriberId(v) # client_id }]
             ELSE bcasts[i]]
    /\ UNCHANGED <<conns, active_connections, client_connections,
                   connection_client_ids>>
    /\ raised' = None
    /\ undelivered' = {}
    /\ wire' = {}

\* a subscribe(job_id, websocket, request_id) call
CallSubscribe(job_id, w, request_id) ==
    /\ conns[w].pc = "open"
    /\ conns[w].transport = "up"
    /\ Subscribe(job_id, w, request_id)
    /\ conns' = [conns EXCEPT ![w].subs = @ \cup {job_id}]
    /\ UNCHANGED <<active_connections, bcasts>>
    /\ raised' = None
    /\ undelivered' = {}
    /\ wire' = {}

\* ------------------------------------------------------------- router
\* an inbound frame as the endpoint decodes it: type is the "type" field, or
\* what json.loads made of a text that is no protocol message (invalid_json:
\* it raised JSONDecodeError; not_object: it returned a list, number or string)
Inbound(ws, type, task_type, params, job_id, request_id) ==
    [ws |-> ws, type |-> type, task_type |-> task_type, params |-> params,
     job_id |-> job_id, request_id |-> request_id]

NoFrame == Inbound(0, None, None, <<>>, NoJobId, None)

\* the dict a handler passes to send_to_connection
ErrorReply(text, request_id) ==
    [type |-> "error", job_id |-> NoJobId, status |-> None, result |-> None,
     error |-> text, request_id |-> request_id]

\* router.py 110-124 / 154-166: the job_status snapshot of an entry
StatusReply(entry, request_id) ==
    [type |-> "job_status", job_id |-> entry.id, status |-> entry.status,
     result |-> IF entry.status = COMPLETED THEN entry.result ELSE None,
     error |-> IF entry.status = FAILED THEN entry.error ELSE None,
     request_id |-> IF request_id # None /\ request_id # "" THEN request_id ELSE None]

ReplyFrame(w, msg) == Frame(w, None, "reply", msg, FALSE, FALSE, FALSE)

\* the endpoint of w is between two receive_text calls and takes a frame
Receives(w) ==
    /\ conns[w].pc = "open"
    /\ conns[w].transport = "up"

\* the registry and the manager left alone by a step of the other
RegistryIdle ==
    /\ ret' = NoCall
    /\ sink' = <<>>
    /\ UNCHANGED <<gpu_lock, max_concurrency, jobs, cancelled_jobs, client_jobs, semaphores,
                   semaphore, tasks, cache>>

ManagerIdle ==
    /\ raised' = None
    /\ undelivered' = {}
    /\ wire' = {}
    /\ UNCHANGED <<conns, active_connections, client_connections,
                   connection_client_ids, job_subscriptions, client_subscriptions,
                   bcasts>>

\* a reply that is the whole of what a handler does
RepliesOnly(w, msg) ==
    /\ RegistryIdle
    /\ raised' = None
    /\ undelivered' = {}
    /\ wire' = {ReplyFrame(w, msg)}
    /\ UNCHANGED <<conns, active_connections, client_connections,
                   connection_client_ids, job_subscriptions, client_subscriptions,
                   bcasts, loopq>>

\* websocket_endpoint, router.py 42-65, for a text that is no request:
\* JSONDecodeError and an unknown type are answered; on a JSON value that is
\* not an object message.get raises AttributeError, which neither except
\* clause catches: the endpoint coroutine ends without calling disconnect and
\* the server closes the transport
HandleMalformed(w, kind) ==
    /\ Receives(w)
    /\ recv' = Inbound(w, kind, None, <<>>, NoJobId, None)
    /\ mutex' = mutex
    /\ IF kind = "invalid_json" THEN RepliesOnly(w, ErrorReply("Invalid JSON", None))
       ELSE IF kind = "unknown_type"
       THEN RepliesOnly(w, ErrorReply("Unknown message type", None))
       ELSE /\ RegistryIdle
            /\ raised' = "AttributeError"
            /\ undelivered' = {}
            /\ wire' = {}
            /\ conns' = [conns EXCEPT ![w].pc = "closed", ![w].transport = "down"]
            /\ UNCHANGED <<active_connections, client_connections,
                           connection_client_ids, job_subscriptions,
                           client_subscriptions, bcasts, loopq>>

\* the "request_id" key of a params map (it sorts before the keys 1, 2)
RequestIdKey == 0

\* params.get("request_id")
ParamRequestId(params) ==
    LET at == { i \in 1..Len(params) : params[i][1] = RequestIdKey } IN
    IF at = {} THEN None ELSE params[CHOOSE i \in at : TRUE][2]

\* router.py 76-79: the copy of params without its request_id key
StripRequestId(params) == SelectSeq(params, LAMBDA kv : kv[1] # RequestIdKey)

\* handle_create_job (router.py 70-126); task_type None: the field is missing;
\* sent_params and sent_id are params and request_id as the message has them
HandleCreateJob(w, task_type, sent_params, sent_id, readOk) ==
    LET params == StripRequestId(sent_params)
        request_id == IF sent_id # None /\ sent_id # "" THEN sent_id
                      ELSE ParamRequestId(sent_params)
        job_id == generate_job_id(params)
    IN
    /\ Receives(w)
    /\ recv' = Inbound(w, "create_job", task_type, sent_params, NoJobId, sent_id)
    /\ mutex' = mutex
    /\ IF task_type = None THEN RepliesOnly(w, ErrorReply("Missing task_type", None))
       ELSE IF task_type \notin job_types
       THEN RepliesOnly(w, ErrorReply("Unknown task_type", None))
       ELSE /\ CreateJob(task_type, params, conns[w].client_id, readOk)
            /\ Subscribe(job_id, w, request_id)
            /\ conns' = [conns EXCEPT
                           ![w].subs = @ \cup {job_id},
                           ![w].asked =
                               IF /\ request_id # None
                                  /\ ret'.entry.status \in {PENDING, PROCESSING}
                               THEN @ \cup {<<job_id, request_id>>} ELSE @]
            /\ wire' = {ReplyFrame(w, StatusReply(ret'.entry, request_id))}
            /\ raised' = None
            /\ undelivered' = {}
            /\ UNCHANGED <<active_connections, bcasts, loopq>>

\* JobRegistry.get_job
get_job(job_id) == IF job_id \in DOMAIN jobs THEN jobs[job_id] ELSE NoEntry

\* handle_get_status (router.py 129-168); job_id NoJobId: the field is missing
HandleGetStatus(w, job_id, request_id) ==
    /\ Receives(w)
    /\ recv' = Inbound(w, "get_status", None, <<>>, job_id, request_id)
    /\ mutex' = mutex
    /\ IF job_id = NoJobId THEN RepliesOnly(w, ErrorReply("Missing job_id", None))
       ELSE /\ Subscribe(job_id, w, request_id)
            /\ conns' = [conns EXCEPT ![w].subs = @ \cup {job_id}]
            /\ wire' = {ReplyFrame(w, IF get_job(job_id) = NoEntry
                                       THEN ErrorReply("Job not found", None)
                                       ELSE StatusReply(get_job(job_id), request_id))}
            /\ RegistryIdle
            /\ raised' = None
            /\ undelivered' = {}
            /\ UNCHANGED <<active_connections, bcasts, loopq>>

\* handle_cancel_job (router.py 171-205): nothing is sent when the call was
\* accepted; the error replies carry the request_id key whatever its value
HandleCancelJob(w, job_id, request_id) ==
    /\ Receives(w)
    /\ recv' = Inbound(w, "cancel_job", None, <<>>, job_id, request_id)
    /\ mutex' = mutex
    /\ IF job_id = NoJobId THEN RepliesOnly(w, ErrorReply("Missing job_id", None))
       ELSE /\ CancelJob(job_id)
            /\ wire' = IF ret'.ok THEN {}
                       ELSE IF get_job(job_id) # NoEntry
                       THEN {ReplyFrame(w, ErrorReply("cannot be cancelled", request_id))}
                       ELSE {ReplyFrame(w, ErrorReply("Job not found", request_id))}
            /\ raised' = None
            /\ undelivered' = {}
            /\ UNCHANGED <<conns, active_connections, client_connections,
                           connection_client_ids, job_subscriptions,
                           client_subscriptions, bcasts, loopq>>

\* JobRegistry.get_client_jobs(client_id): copies of the entries whose ids
\* the ownership index holds for the client
get_client_jobs(client_id) ==
    IF client_id \in DOMAIN client_jobs
    THEN { jobs[j] : j \in client_jobs[client_id] \cap DOMAIN jobs }
    ELSE {}

\* router.py 225-245: the client_jobs reply; its "jobs" list is carried in
\* the result field as <<job_id, status>> pairs
ClientJobsReply(entries, request_id) ==
    [type |-> "client_jobs", job_id |-> NoJobId, status |-> None,
     result |-> { <<e.id, e.status>> : e \in entries }, error |-> None,
     request_id |-> IF request_id # None /\ request_id # "" THEN request_id ELSE None]

\* router.py 238-240: ws_manager.subscribe(job["id"], websocket) for every
\* job in S, one call after the other, each without a request_id; after the
\* first call an unbound connection is bound to its pseudo id
Resubscribe(S, w) ==
    LET sid == IF ClientIdOf(w) # None THEN ClientIdOf(w) ELSE PseudoId(w) IN
    /\ job_subscriptions' =
          [j \in DOMAIN job_subscriptions \cup S |->
              IF j \in S THEN SetItem(ItemsOf(j), sid, None) ELSE ItemsOf(j)]
    /\ client_subscriptions' =
          IF sid \in DOMAIN client_subscriptions
          THEN [client_subscriptions EXCEPT ![sid] = @ \cup S]
          ELSE IF ClientIdOf(w) = None /\ S # {}
          THEN (sid :> S) @@ client_subscriptions
          ELSE client_subscriptions
    /\ connection_client_ids' =
          IF ClientIdOf(w) = None /\ S # {}
          THEN (w :> sid) @@ connection_client_ids ELSE connection_client_ids
    /\ client_connections' =
          IF ClientIdOf(w) = None /\ S # {}
          THEN (sid :> w) @@ client_connections ELSE client_connections

\* handle_get_client_jobs (router.py 208-252); the client id is the one the
\* endpoint was opened with
HandleGetClientJobs(w, request_id) ==
    LET client_id == conns[w].client_id
        entries == get_client_jobs(client_id)
        live == { e.id : e \in { x \in entries : x.status \in {PENDING, PROCESSING} } }
    IN
    /\ Receives(w)
    /\ recv' = Inbound(w, "get_client_jobs", None, <<>>, NoJobId, request_id)
    /\ mutex' = mutex
    /\ IF client_id = None
       THEN RepliesOnly(w, ErrorReply("No client_id associated with this connection",
                                      request_id))
       ELSE /\ Resubscribe(live, w)
            /\ conns' = [conns EXCEPT ![w].subs = @ \cup live]
            /\ wire' = {ReplyFrame(w, ClientJobsReply(entries, request_id))}
            /\ RegistryIdle
            /\ raised' = None
            /\ undelivered' = {}
            /\ UNCHANGED <<active_connections, bcasts, loopq>>

\* server.py 50-54 with manager.py 210-222: every message the registry hands
\* to its callback becomes a broadcast_to_job coroutine queued on the loop
Queued == loopq \o sink'

\* the loop starts the coroutine at the head of its queue
LoopStartsBroadcast ==
    /\ loopq # <<>>
    /\ Len(bcasts) < MaxBcasts
    /\ BroadcastBegins(Head(loopq).job_id, Head(loopq))
    /\ loopq' = Tail(loopq)

\* ------------------------------------------------------- specification
Init ==
    /\ max_concurrency \in 1..MaxConcurrency
    /\ jobs = <<>>
    /\ cancelled_jobs = {}
    /\ client_jobs = [c \in RegistryClients \ {None} |-> {}]
    /\ semaphores = <<>>
    /\ semaphore = 0
    /\ tasks = <<>>
    /\ cache = [j \in JobIds |-> NoFile]
    /\ gpu_lock = NewLock
    /\ sink = <<>>
    /\ ret = NoCall
    /\ conns = <<>>
    /\ active_connections = {}
    /\ client_connections = <<>>
    /\ connection_client_ids = <<>>
    /\ job_subscriptions = <<>>
    /\ client_subscriptions = <<>>
    /\ bcasts = <<>>
    /\ raised = None
    /\ undelivered = {}
    /\ wire = {}
    /\ recv = NoFrame
    /\ mutex = Unlocked
    /\ loopq = <<>>

\* the inputs of a create_job call that its outcome can depend on: the client
\* identity only where a fresh entry is made, the outcome of the cache read
\* only where the blob is read
MakesEntry(T, P) ==
    /\ T \in job_types
    /\ ~(generate_job_id(P) \in DOMAIN jobs
          /\ jobs[generate_job_id(P)].status \in {PENDING, PROCESSING, COMPLETED})

ReadsCache(T, P) == MakesEntry(T, P) /\ cache_exists(generate_job_id(P))

CallCreateJob ==
    \E T \in TaskTypes, P \in ParamMaps :
      \E c \in (IF MakesEntry(T, P) THEN RegistryClients ELSE {None}) :
        \E readOk \in (IF ReadsCache(T, P) THEN BOOLEAN ELSE {TRUE}) :
          CreateJob(T, P, c, readOk)

CallCancelJob == \E j \in JobIds : CancelJob(j)

\* the registry alone, called directly; its broadcasts are seen in sink
Next ==
    \/ CallCreateJob /\ UNCHANGED <<wsVars, sysVars>>
    \/ CallCancelJob /\ UNCHANGED <<wsVars, sysVars>>
    \/ \E t \in 1..Len(tasks) : TaskStartAcquire(t) /\ UNCHANGED <<wsVars, sysVars>>
    \/ \E t \in 1..Len(tasks) : TaskStartWait(t) /\ UNCHANGED <<wsVars, sysVars>>
    \/ \E t \in 1..Len(tasks) : TaskResume(t) /\ UNCHANGED <<wsVars, sysVars>>
    \/ \E t \in 1..Len(tasks) : HandlerProgress(t) /\ UNCHANGED <<wsVars, sysVars>>
    \/ \E t \in 1..Len(tasks) : HandlerStatus(t) /\ UNCHANGED <<wsVars, sysVars>>
    \/ \E t \in 1..Len(tasks), r \in Results :
         \E writeOk \in (IF is_cancelled(tasks[t].job_id) THEN {TRUE} ELSE BOOLEAN) :
            ExecuteReturns(t, r, writeOk) /\ UNCHANGED <<wsVars, sysVars>>
    \/ \E t \in 1..Len(tasks), e \in HandlerErrors :
         ExecuteRaises(t, e) /\ UNCHANGED <<wsVars, sysVars>>

Spec == Init /\ [][Next]_vars

\* the event loop runs every task that is ready: a created task takes its
\* first step, a task whose acquire future was resolved resumes
TaskRuns(t) ==
    /\ t \in 1..Len(tasks)
    /\ (TaskStartAcquire(t) \/ TaskStartWait(t) \/ TaskResume(t))
    /\ UNCHANGED <<wsVars, sysVars>>

\* the execute call of a task returns or raises
ExecuteEnds(t) ==
    /\ t \in 1..Len(tasks)
    /\ \/ \E r \in Results :
            \E writeOk \in (IF is_cancelled(tasks[t].job_id) THEN {TRUE} ELSE BOOLEAN) :
               ExecuteReturns(t, r, writeOk)
       \/ \E e \in HandlerErrors : ExecuteRaises(t, e)
    /\ UNCHANGED <<wsVars, sysVars>>

\* the registry under a fair event loop and handlers whose execute ends
SpecLive ==
    /\ Init
    /\ [][Next]_vars
    /\ \A t \in 1..MaxTasks : WF_vars(TaskRuns(t)) /\ WF_vars(ExecuteEnds(t))

\* the registry with its concurrency bound changed while it runs
NextResize ==
    \/ Next
    \/ \E n \in 1..MaxConcurrency :
         SetMaxConcurrency(n) /\ UNCHANGED <<wsVars, sysVars>>

SpecResize == Init /\ [][NextResize]_vars

\* the registry executing text_to_image jobs, whose execute serializes the
\* GPU with gpu_lock
NextGpu ==
    \/ CallCreateJob /\ UNCHANGED <<wsVars, sysVars>>
    \/ CallCancelJob /\ UNCHANGED <<wsVars, sysVars>>
    \/ \E t \in 1..Len(tasks) : TaskStartAcquire(t) /\ UNCHANGED <<wsVars, sysVars>>
    \/ \E t \in 1..Len(tasks) : TaskStartWait(t) /\ UNCHANGED <<wsVars, sysVars>>
    \/ \E t \in 1..Len(tasks) : TaskResume(t) /\ UNCHANGED <<wsVars, sysVars>>
    \/ \E t \in 1..Len(tasks), e \in HandlerErrors :
         BeforeSection(t) /\ ExecuteRaises(t, e) /\ UNCHANGED <<wsVars, sysVars>>
    \/ \E t \in 1..Len(tasks) : SectionEnter(t) /\ UNCHANGED <<wsVars, sysVars>>
    \/ \E t \in 1..Len(tasks) : SectionWait(t) /\ UNCHANGED <<wsVars, sysVars>>
    \/ \E t \in 1..Len(tasks) : SectionResume(t) /\ UNCHANGED <<wsVars, sysVars>>
    \/ \E t \in 1..Len(tasks) :
         t \in gpu_lock.inside /\ HandlerProgress(t) /\ UNCHANGED <<wsVars, sysVars>>
    \/ \E t \in 1..Len(tasks) : \E e \in SectionErrors(t) :
         SectionRaises(t, e) /\ UNCHANGED <<wsVars, sysVars>>

SpecGpu == Init /\ [][NextGpu]_vars

\* the registry of a process started over the cache directory an earlier
\* process left: a blob may exist for an id that has no entry
CacheBlobs == {NoFile} \cup { serialize_result(r) : r \in Results }

InitRestart ==
    /\ max_concurrency \in 1..MaxConcurrency
    /\ jobs = <<>>
    /\ cancelled_jobs = {}
    /\ client_jobs = [c \in RegistryClients \ {None} |-> {}]
    /\ semaphores = <<>>
    /\ semaphore = 0
    /\ tasks = <<>>
    /\ cache \in [JobIds -> CacheBlobs]
    /\ gpu_lock = NewLock
    /\ sink = <<>>
    /\ ret = NoCall
    /\ conns = <<>>
    /\ active_connections = {}
    /\ client_connections = <<>>
    /\ connection_client_ids = <<>>
    /\ job_subscriptions = <<>>
    /\ client_subscriptions = <<>>
    /\ bcasts = <<>>
    /\ raised = None
    /\ undelivered = {}
    /\ wire = {}
    /\ recv = NoFrame
    /\ mutex = Unlocked
    /\ loopq = <<>>

SpecRestart == InitRestart /\ [][Next]_vars

\* the websocket manager alone: peers connect and drop, connections
\* subscribe and unsubscribe, messages are broadcast
\* the registry is idle at its default concurrency of one
InitWs == Init /\ max_concurrency = 1

WsJobs == { generate_job_id(<<<<1, 2>>>>) }
WsMessages ==
    { StatusMessage(j, PROCESSING, None, None) : j \in WsJobs }
    \cup { StatusMessage(j, COMPLETED, "img", None) : j \in WsJobs }

\* the manager as the server drives it: router.py never calls unsubscribe
NextServed ==
    \/ \E c \in WsClients : OpenConnection(c) /\ UNCHANGED <<regVars, sysVars>>
    \/ \E w \in 1..Len(conns) : ConnectAccepted(w) /\ UNCHANGED <<regVars, sysVars>>
    \/ \E w \in 1..Len(conns) : ConnectFails(w) /\ UNCHANGED <<regVars, sysVars>>
    \/ \E w \in 1..Len(conns) : ConnectClosedOld(w) /\ UNCHANGED <<regVars, sysVars>>
    \/ \E w \in 1..Len(conns) : DropTransport(w) /\ UNCHANGED <<regVars, sysVars>>
    \/ \E w \in 1..Len(conns) : EndpointDisconnect(w) /\ UNCHANGED <<regVars, sysVars>>
    \/ \E w \in 1..Len(conns) : SendToConnection(w) /\ UNCHANGED <<regVars, sysVars>>
    \/ \E w \in 1..Len(conns), j \in WsJobs, r \in RequestIds :
         CallSubscribe(j, w, r) /\ UNCHANGED <<regVars, sysVars>>
    \/ \E m \in WsMessages : BroadcastStart(m.job_id, m) /\ UNCHANGED <<regVars, sysVars>>
    \/ \E i \in 1..Len(bcasts) : BroadcastSent(i) /\ UNCHANGED <<regVars, sysVars>>

SpecServed == InitWs /\ [][NextServed]_vars

\* the place of a message in what the registry produces for a job:
\* processing first, the terminal status last
Rank(message) == IF message.status \in FinalStatuses THEN 2 ELSE 1

\* the manager with two broadcasts of a job in flight: the loop starts the
\* coroutines in the order broadcast_to_job_threadsafe was called, which is
\* the order of bcasts and the order in which the registry produced the messages
NextOrder ==
    \/ \E c \in WsClients : OpenConnection(c) /\ UNCHANGED <<regVars, sysVars>>
    \/ \E w \in 1..Len(conns) : ConnectAccepted(w) /\ UNCHANGED <<regVars, sysVars>>
    \/ \E w \in 1..Len(conns) : ConnectFails(w) /\ UNCHANGED <<regVars, sysVars>>
    \/ \E w \in 1..Len(conns) : ConnectClosedOld(w) /\ UNCHANGED <<regVars, sysVars>>
    \/ \E w \in 1..Len(conns) : DropTransport(w) /\ UNCHANGED <<regVars, sysVars>>
    \/ \E w \in 1..Len(conns) : EndpointDisconnect(w) /\ UNCHANGED <<regVars, sysVars>>
    \/ \E w \in 1..Len(conns) : SendToConnection(w) /\ UNCHANGED <<regVars, sysVars>>
    \/ \E w \in 1..Len(conns), j \in WsJobs :
         CallSubscribe(j, w, None) /\ UNCHANGED <<regVars, sysVars>>
    \/ \E m \in WsMessages :
         /\ Len(bcasts) < MaxInFlight
         /\ \A k \in 1..Len(bcasts) : Rank(bcasts[k].message) < Rank(m)
         /\ BroadcastBegins(m.job_id, m)
         /\ UNCHANGED <<regVars, sysVars>>
    \/ \E i \in 1..Len(bcasts) : BroadcastSent(i) /\ UNCHANGED <<regVars, sysVars>>

SpecOrder == InitWs /\ [][NextOrder]_vars

\* the manager with a subscriber that stays and a client that comes back:
\* the first connection is anonymous, the later ones present the identity k1
NextReconnect ==
    \/ /\ Len(conns) < MaxReconnects
       /\ EndpointOpens(IF conns = <<>> THEN None ELSE "k1")
       /\ UNCHANGED <<regVars, sysVars>>
    \/ \E w \in 1..Len(conns) : ConnectAccepted(w) /\ UNCHANGED <<regVars, sysVars>>
    \/ \E w \in 1..Len(conns) : ConnectFails(w) /\ UNCHANGED <<regVars, sysVars>>
    \/ \E w \in 1..Len(conns) : ConnectClosedOld(w) /\ UNCHANGED <<regVars, sysVars>>
    \/ \E w \in 1..Len(conns) : DropTransport(w) /\ UNCHANGED <<regVars, sysVars>>
    \/ \E w \in 1..Len(conns) : EndpointDisconnect(w) /\ UNCHANGED <<regVars, sysVars>>
    \/ \E w \in 1..Len(conns) : SendToConnection(w) /\ UNCHANGED <<regVars, sysVars>>
    \/ \E w \in 1..Len(conns), j \in WsJobs :
         CallSubscribe(j, w, None) /\ UNCHANGED <<regVars, sysVars>>
    \/ \E m \in WsMessages : BroadcastStart(m.job_id, m) /\ UNCHANGED <<regVars, sysVars>>
    \/ \E i \in 1..Len(bcasts) : BroadcastSent(i) /\ UNCHANGED <<regVars, sysVars>>

SpecReconnect == InitWs /\ [][NextReconnect]_vars

\* the whole server: one peer talks to the endpoint, the registry executes
\* the jobs and its messages are broadcast through the loop's queue
\* the tokens its create_job requests carry, and the token of the others
RouterRequestIds == {"r1", "r2"}
StatusRequestIds == {"r1"}
RouterParams == <<<<1, 2>>>>

Background ==
    /\ RegistryIdle
    /\ recv' = NoFrame
    /\ mutex' = mutex
    /\ loopq' = loopq

Executor ==
    /\ Len(loopq) < MaxQueue
    /\ ManagerIdle
    /\ recv' = NoFrame
    /\ mutex' = mutex
    /\ loopq' = Queued

NextRouter ==
    \/ \E c \in WsClients :
         Len(conns) < MaxRouterConns /\ EndpointOpens(c) /\ Background
    \/ \E w \in 1..Len(conns) : ConnectAccepted(w) /\ Background
    \/ \E w \in 1..Len(conns) : ConnectFails(w) /\ Background
    \/ \E w \in 1..Len(conns) : DropTransport(w) /\ Background
    \/ \E w \in 1..Len(conns) : EndpointDisconnect(w) /\ Background
    \/ \E w \in 1..Len(conns) : SendToConnection(w) /\ Background
    \/ \E w \in 1..Len(conns), kind \in {"invalid_json", "not_object", "unknown_type"} :
         HandleMalformed(w, kind)
    \/ \E w \in 1..Len(conns), T \in TaskTypes \cup {None}, r \in RouterRequestIds :
         \E readOk \in (IF ReadsCache(T, RouterParams) THEN BOOLEAN ELSE {TRUE}) :
            /\ MakesEntry(T, RouterParams) => Len(tasks) < MaxRouterTasks
            /\ HandleCreateJob(w, T, RouterParams, r, readOk)
    \/ \E w \in 1..Len(conns), j \in JobIds \cup {NoJobId}, r \in StatusRequestIds :
         HandleGetStatus(w, j, r)
    \/ \E w \in 1..Len(conns), j \in JobIds \cup {NoJobId}, r \in StatusRequestIds :
         HandleCancelJob(w, j, r)
    \/ \E t \in 1..Len(tasks) : TaskStartAcquire(t) /\ Executor
    \/ \E t \in 1..Len(tasks) : HandlerProgress(t) /\ Executor
    \/ \E t \in 1..Len(tasks), r \in Results :
         \E writeOk \in (IF is_cancelled(tasks[t].job_id) THEN {TRUE} ELSE BOOLEAN) :
            ExecuteReturns(t, r, writeOk) /\ Executor
    \/ \E t \in 1..Len(tasks), e \in HandlerErrors :
         ExecuteRaises(t, e) /\ Executor
    \/ LoopStartsBroadcast /\ RegistryIdle /\ recv' = NoFrame /\ mutex' = mutex
    \/ \E i \in 1..Len(bcasts) : BroadcastSent(i) /\ Background

SpecRouter == InitWs /\ [][NextRouter]_vars

\* the server answering create_job, cancel_job and get_client_jobs requests;
\* every create_job request carries the same correlation token
SubscribedToken == "r1"

NextClientJobs ==
    \/ \E c \in WsClients :
         Len(conns) < MaxRouterConns /\ EndpointOpens(c) /\ Background
    \/ \E w \in 1..Len(conns) : ConnectAccepted(w) /\ Background
    \/ \E w \in 1..Len(conns) :
         \E readOk \in (IF ReadsCache("text_to_image", RouterParams)
                        THEN BOOLEAN ELSE {TRUE}) :
            /\ MakesEntry("text_to_image", RouterParams) => Len(tasks) < MaxRouterTasks
            /\ HandleCreateJob(w, "text_to_image", RouterParams, SubscribedToken, readOk)
    \/ \E w \in 1..Len(conns), j \in JobIds, r \in StatusRequestIds :
         HandleCancelJob(w, j, r)
    \/ \E w \in 1..Len(conns), r \in StatusRequestIds \cup {None} :
         HandleGetClientJobs(w, r)
    \/ \E t \in 1..Len(tasks) : TaskStartAcquire(t) /\ Executor
    \/ \E t \in 1..Len(tasks) : HandlerProgress(t) /\ Executor
    \/ \E t \in 1..Len(tasks), r \in Results :
         ExecuteReturns(t, r, TRUE) /\ Executor
    \/ \E t \in 1..Len(tasks), e \in HandlerErrors :
         ExecuteRaises(t, e) /\ Executor
    \/ LoopStartsBroadcast /\ RegistryIdle /\ recv' = NoFrame /\ mutex' = mutex
    \/ \E i \in 1..Len(bcasts) : BroadcastSent(i) /\ Background

SpecClientJobs == InitWs /\ [][NextClientJobs]_vars

\* the server with one client identity that connects, reconnects and sends
\* create_job requests, each of which schedules a new execution
NextRequester ==
    \/ Len(conns) < MaxRequesterConns /\ EndpointOpens("k1") /\ Background
    \/ \E w \in 1..Len(conns) : ConnectAccepted(w) /\ Background
    \/ \E w \in 1..Len(conns) : ConnectClosedOld(w) /\ Background
    \/ \E w \in 1..Len(conns) : EndpointDisconnect(w) /\ Background
    \/ \E w \in 1..Len(conns) :
         /\ MakesEntry("text_to_image", RouterParams)
         /\ Len(tasks) < MaxRequesterTasks
         /\ HandleCreateJob(w, "text_to_image", RouterParams, SubscribedToken, TRUE)
    \/ \E t \in 1..Len(tasks) : TaskStartAcquire(t) /\ Executor
    \/ \E t \in 1..Len(tasks), r \in Results :
         ExecuteReturns(t, r, FALSE) /\ Executor
    \/ \E t \in 1..Len(tasks), e \in HandlerErrors :
         ExecuteRaises(t, e) /\ Executor
    \/ LoopStartsBroadcast /\ RegistryIdle /\ recv' = NoFrame /\ mutex' = mutex
    \/ \E i \in 1..Len(bcasts) : BroadcastSent(i) /\ Background

SpecRequester == InitWs /\ [][NextRequester]_vars

\* the server answering create_job requests whose params are written in
\* either key order, with and without a request_id key among them
IdentityParams ==
    { <<<<1, 1>>, <<2, 2>>>>,
      <<<<2, 2>>, <<1, 1>>>>,
      <<<<RequestIdKey, "r1">>, <<1, 1>>, <<2, 2>>>>,
      <<<<2, 2>>, <<1, 1>>, <<RequestIdKey, "r2">>>>,
      <<<<1, 2>>>> }
IdentityRequestIds == {None, "r1"}

NextIdentity ==
    \/ Len(conns) < MaxRouterConns /\ EndpointOpens("k1") /\ Background
    \/ \E w \in 1..Len(conns) : ConnectAccepted(w) /\ Background
    \/ \E w \in 1..Len(conns), P \in IdentityParams, r \in IdentityRequestIds :
         /\ MakesEntry("text_to_image", StripRequestId(P)) => Len(tasks) < MaxTasks
         /\ HandleCreateJob(w, "text_to_image", P, r, TRUE)
    \/ \E t \in 1..Len(tasks) : TaskStartAcquire(t) /\ Executor
    \/ \E t \in 1..Len(tasks) : TaskStartWait(t) /\ Executor
    \/ \E t \in 1..Len(tasks) : TaskResume(t) /\ Executor
    \/ \E t \in 1..Len(tasks), r \in Results :
         ExecuteReturns(t, r, TRUE) /\ Executor
    \/ \E t \in 1..Len(tasks), e \in HandlerErrors :
         ExecuteRaises(t, e) /\ Executor
    \/ LoopStartsBroadcast /\ RegistryIdle /\ recv' = NoFrame /\ mutex' = mutex
    \/ \E i \in 1..Len(bcasts) : BroadcastSent(i) /\ Background

SpecIdentity == InitWs /\ [][NextIdentity]_vars

\* the manager with its whole interface
NextWs ==
    \/ NextServed
    \/ \E w \in 1..Len(conns), j \in WsJobs :
         CallUnsubscribe(j, w) /\ UNCHANGED <<regVars, sysVars>>

SpecWs == InitWs /\ [][NextWs]_vars

\* the registry asked for one job: create_job, a cancel_job that comes only
\* while the job's first execution is the only one scheduled, and create_job
\* again; no cancel_job is ever called once a second execution is scheduled
RetryParams == <<<<1, 2>>>>

NextRetry ==
    \/ \E c \in RegistryClients :
         \E readOk \in (IF ReadsCache("text_to_image", RetryParams)
                        THEN BOOLEAN ELSE {TRUE}) :
            /\ CreateJob("text_to_image", RetryParams, c, readOk)
            /\ UNCHANGED <<wsVars, sysVars>>
    \/ /\ Len(tasks) <= 1
       /\ CancelJob(generate_job_id(RetryParams))
       /\ UNCHANGED <<wsVars, sysVars>>
    \/ \E t \in 1..Len(tasks) : TaskStartAcquire(t) /\ UNCHANGED <<wsVars, sysVars>>
    \/ \E t \in 1..Len(tasks) : TaskStartWait(t) /\ UNCHANGED <<wsVars, sysVars>>
    \/ \E t \in 1..Len(tasks) : TaskResume(t) /\ UNCHANGED <<wsVars, sysVars>>
    \/ \E t \in 1..Len(tasks) : HandlerProgress(t) /\ UNCHANGED <<wsVars, sysVars>>
    \/ \E t \in 1..Len(tasks), r \in Results :
         \E writeOk \in (IF is_cancelled(tasks[t].job_id) THEN {TRUE} ELSE BOOLEAN) :
            ExecuteReturns(t, r, writeOk) /\ UNCHANGED <<wsVars, sysVars>>
    \/ \E t \in 1..Len(tasks), e \in HandlerErrors :
         ExecuteRaises(t, e) /\ UNCHANGED <<wsVars, sysVars>>

SpecRetry == Init /\ [][NextRetry]_vars

\* ------------------------------------------- create_job under the mutex
\* file operations create_job performs (cache.py: os.path.exists, open/read)
IoOperations == {"cache_exists", "read_cache"}

MutexCallId == generate_job_id(mutex.call.params)

RegistryUntouched ==
    UNCHANGED <<regVars, wsVars, recv, loopq>>

\* create_job enters "with cls._lock" (registry.py 142) and looks the id up
\* in the table (144-159)
CreateTakesLock(T, P, c) ==
    /\ ~mutex.held
    /\ T \in job_types
    /\ MakesEntry(T, P) => Len(tasks) < MaxTasks
    /\ mutex' = [held |-> TRUE, doing |-> "table",
                 call |-> [task_type |-> T, params |-> P, client_id |-> c]]
    /\ RegistryUntouched

\* no live entry: create_job calls cache_exists, still inside the with block
\* (registry.py 162-168)
CreateChecksCache ==
    /\ mutex.held
    /\ mutex.doing = "table"
    /\ MakesEntry(mutex.call.task_type, mutex.call.params)
    /\ mutex' = [mutex EXCEPT !.doing = "cache_exists"]
    /\ RegistryUntouched

\* the blob exists: create_job calls read_cache and deserialize_result, still
\* inside the with block (registry.py 170-173)
CreateReadsCache ==
    /\ mutex.held
    /\ mutex.doing = "cache_exists"
    /\ cache_exists(MutexCallId)
    /\ mutex' = [mutex EXCEPT !.doing = "read_cache"]
    /\ RegistryUntouched

\* create_job stores or returns the entry and leaves the with block
\* (registry.py 151, 156, 183-184, 200-206), then schedules the execution
CreateLeavesLock(readOk) ==
    /\ mutex.held
    /\ \/ mutex.doing = "table"
          /\ ~MakesEntry(mutex.call.task_type, mutex.call.params)
          /\ readOk
       \/ mutex.doing = "cache_exists" /\ ~cache_exists(MutexCallId) /\ readOk
       \/ mutex.doing = "read_cache"
    /\ CreateJob(mutex.call.task_type, mutex.call.params, mutex.call.client_id, readOk)
    /\ mutex' = Unlocked
    /\ UNCHANGED <<wsVars, recv, loopq>>

\* the other registry code takes the mutex for a table update and gives it
\* back within its step (registry.py 101-109, 224-226, 246-250, 273-296);
\* execute is awaited and the blob is written outside of it (239, 253-263)
OutsideCreate ==
    /\ ~mutex.held
    /\ UNCHANGED <<wsVars, sysVars>>

NextLock ==
    \/ \E T \in TaskTypes, P \in ParamMaps, c \in RegistryClients :
         CreateTakesLock(T, P, c)
    \/ CreateChecksCache
    \/ CreateReadsCache
    \/ \E readOk \in BOOLEAN : CreateLeavesLock(readOk)
    \/ CallCancelJob /\ OutsideCreate
    \/ \E t \in 1..Len(tasks) : TaskStartAcquire(t) /\ OutsideCreate
    \/ \E t \in 1..Len(tasks) : TaskStartWait(t) /\ OutsideCreate
    \/ \E t \in 1..Len(tasks) : TaskResume(t) /\ OutsideCreate
    \/ \E t \in 1..Len(tasks), r \in Results, writeOk \in BOOLEAN :
         ExecuteReturns(t, r, writeOk) /\ OutsideCreate
    \/ \E t \in 1..Len(tasks), e \in HandlerErrors :
         ExecuteRaises(t, e) /\ OutsideCreate

SpecLock == InitRestart /\ [][NextLock]_vars

\* ------------------------------------ subscribers of one job, no failures
\* connections of distinct identities that stay connected: they subscribe and
\* unsubscribe while a broadcast of the job is suspended in a send
MaxSubscribers == 3

FirstConnection(c) ==
    c = None \/ \A w \in 1..Len(conns) : conns[w].client_id # c

NextSubscribers ==
    \/ \E c \in WsClients :
         /\ Len(conns) < MaxSubscribers
         /\ FirstConnection(c)
         /\ EndpointOpens(c)
         /\ UNCHANGED <<regVars, sysVars>>
    \/ \E w \in 1..Len(conns) : ConnectAccepted(w) /\ UNCHANGED <<regVars, sysVars>>
    \/ \E w \in 1..Len(conns), j \in WsJobs :
         CallSubscribe(j, w, None) /\ UNCHANGED <<regVars, sysVars>>
    \/ \E w \in 1..Len(conns), j \in WsJobs :
         CallUnsubscribe(j, w) /\ UNCHANGED <<regVars, sysVars>>
    \/ \E m \in WsMessages : BroadcastStart(m.job_id, m) /\ UNCHANGED <<regVars, sysVars>>
    \/ \E i \in 1..Len(bcasts) : BroadcastSent(i) /\ UNCHANGED <<regVars, sysVars>>

SpecSubscribers == InitWs /\ [][NextSubscribers]_vars

\* ------------------------------------------ two clients asking for jobs
\* the registry called by two named clients for the same and for different
\* parameters
OwnerClients == {"k1", "k2"}

NextOwners ==
    \/ \E P \in ParamMaps, c \in OwnerClients :
         \E readOk \in (IF ReadsCache("text_to_image", P) THEN BOOLEAN ELSE {TRUE}) :
            /\ CreateJob("text_to_image", P, c, readOk)
            /\ UNCHANGED <<wsVars, sysVars>>
    \/ CallCancelJob /\ UNCHANGED <<wsVars, sysVars>>
    \/ \E t \in 1..Len(tasks) : TaskStartAcquire(t) /\ UNCHANGED <<wsVars, sysVars>>
    \/ \E t \in 1..Len(tasks) : TaskStartWait(t) /\ UNCHANGED <<wsVars, sysVars>>
    \/ \E t \in 1..Len(tasks) : TaskResume(t) /\ UNCHANGED <<wsVars, sysVars>>
    \/ \E t \in 1..Len(tasks), r \in Results :
         \E writeOk \in (IF is_cancelled(tasks[t].job_id) THEN {TRUE} ELSE BOOLEAN) :
            ExecuteReturns(t, r, writeOk) /\ UNCHANGED <<wsVars, sysVars>>
    \/ \E t \in 1..Len(tasks), e \in HandlerErrors :
         ExecuteRaises(t, e) /\ UNCHANGED <<wsVars, sysVars>>

SpecOwners == Init /\ [][NextOwners]_vars

\* ================================================================ claims
\* ---- C1: a create_job call made while the entry of the id is pending or
\* processing returns that existing entry (same job id) and schedules no
\* execution: the job table, the tasks and the sink are as before the call.
C1_DedupReturnsExisting ==
    [][\A j \in JobIds :
          (/\ j \in DOMAIN jobs
           /\ jobs[j].status \in {PENDING, PROCESSING}
           /\ ret'.op = "create_job"
           /\ ret'.id = j)
          => (/\ ret'.entry = jobs[j]
              /\ ret'.entry.id = j
              /\ jobs' = jobs
              /\ tasks' = tasks
              /\ sink' = <<>>)]_vars

\* a create_job call returned the entry of a job that is being processed
C1_Witness ==
    /\ ret.op = "create_job"
    /\ ret.ok
    /\ ret.entry.status = PROCESSING
    /\ \E t \in 1..Len(tasks) : tasks[t].job_id = ret.id /\ tasks[t].pc = "executing"

\* ---- C2: every status change of an entry follows pending -> processing,
\* pending -> cancelled, processing -> completed | failed | cancelled, and a
\* terminal status is changed by no step other than a create_job retry.  (A
\* status a handler reports through update_status counts as processing.)
Phase(status) == IF status \in JobStatus THEN status ELSE PROCESSING

AllowedTransitions ==
    { <<PENDING, PROCESSING>>, <<PENDING, CANCELLED>>, <<PROCESSING, COMPLETED>>,
      <<PROCESSING, FAILED>>, <<PROCESSING, CANCELLED>> }

C2_StatusStateMachine ==
    [][\A j \in DOMAIN jobs :
          ret'.op # "create_job"
          => \/ Phase(jobs'[j].status) = Phase(jobs[j].status)
             \/ <<Phase(jobs[j].status), Phase(jobs'[j].status)>> \in AllowedTransitions]_vars

\* ---- C3: at most max_concurrency jobs are processing, and at most
\* max_concurrency executions hold a semaphore permit, in every state.
Holders == { t \in 1..Len(tasks) : tasks[t].pc \in {"executing", "woken"} }

C3_ConcurrencyBound ==
    /\ Cardinality({ j \in DOMAIN jobs : jobs[j].status = PROCESSING }) <= max_concurrency
    /\ Cardinality(Holders) <= max_concurrency

\* the semaphore is exhausted and another execution waits for a permit
C3_Witness ==
    /\ Cardinality({ t \in 1..Len(tasks) : tasks[t].pc = "executing" }) = max_concurrency
    /\ \E t \in 1..Len(tasks) : tasks[t].pc = "waiting"

\* ---- C5: with max_concurrency = 1, once cancel_job was accepted for a job
\* queued behind the running one, no job_status processing is broadcast for it.
C5_NoProcessingAfterCancelPending ==
    [][\A t \in 1..Len(tasks) :
          (/\ max_concurrency = 1
           /\ tasks[t].pc \in {"waiting", "woken"}
           /\ tasks[t].job_id \in DOMAIN jobs
           /\ jobs[tasks[t].job_id].status = CANCELLED
           /\ tasks[t].job_id \in cancelled_jobs)
          => \A i \in 1..Len(sink') :
                ~(/\ sink'[i].type = "job_status"
                  /\ sink'[i].job_id = tasks[t].job_id
                  /\ sink'[i].status = PROCESSING)]_vars

\* ---- C6: a cancel_job call on a pending job sets its status to cancelled
\* and hands the job_status cancelled message to the broadcast sink in the call.
C6_CancelPendingBroadcasts ==
    [][\A j \in DOMAIN jobs :
          (/\ jobs[j].status = PENDING
           /\ ret'.op = "cancel_job"
           /\ ret'.id = j)
          => (/\ jobs'[j].status = CANCELLED
              /\ \E i \in 1..Len(sink') :
                    /\ sink'[i].type = "job_status"
                    /\ sink'[i].job_id = j
                    /\ sink'[i].status = CANCELLED)]_vars

\* ---- C7: an execution for whose job cancel_job was accepted while the job
\* was processing ends with the entry cancelled and a cancelled broadcast,
\* whether execute returned or raised.
C7_AcceptedCancelEndsCancelled ==
    [][\A t \in 1..Len(tasks) :
          (/\ tasks[t].pc = "executing"
           /\ tasks[t].cancel_req
           /\ tasks'[t].pc = "done")
          => (/\ jobs'[tasks[t].job_id].status = CANCELLED
              /\ Len(sink') = 1
              /\ sink'[1].type = "job_status"
              /\ sink'[1].job_id = tasks[t].job_id
              /\ sink'[1].status = CANCELLED)]_vars

\* ---- C4: a terminal job_status broadcast reaches every connection that was
\* in service and subscribed from the start of the broadcast to its end (the
\* "never zero" half of exactly-once delivery).
C4_TerminalBroadcastDelivered ==
    \A u \in undelivered : u[3] \notin FinalStatuses

\* ---- C8: a job_status broadcast started after a client reconnected reaches
\* the client's new connection through the subscription made before the
\* reconnect (the new connection itself never subscribed).
C8_ReconnectedClientReceives ==
    \A u \in undelivered : ~(Reconnected(u[1]) /\ u[2] \notin conns[u[1]].subs)

\* ---- C9: a step that evicts a connection (disconnect, a failed send, the
\* supplanting in connect) leaves job_subscriptions and client_subscriptions
\* unchanged, and a subscription entry is removed only by an unsubscribe call.
Evicts ==
    \/ active_connections \ active_connections' # {}
    \/ DOMAIN client_connections \ DOMAIN client_connections' # {}
    \/ DOMAIN connection_client_ids \ DOMAIN connection_client_ids' # {}

JobEntries ==
    UNION { { <<j, job_subscriptions[j][i][1]>> : i \in 1..Len(job_subscriptions[j]) } :
            j \in DOMAIN job_subscriptions }

ClientEntries ==
    UNION { { <<j, c>> : j \in client_subscriptions[c] } : c \in DOMAIN client_subscriptions }

C10_MapsAreInverse ==
    /\ \A c \in DOMAIN client_connections : ClientIdOf(client_connections[c]) = c
    /\ \A w \in DOMAIN connection_client_ids : ConnectionOf(connection_client_ids[w]) = w

\* ---- C14: cancel_job(id) returns true exactly when an entry for id exists
\* with status pending or processing, and then id is in the cancellation set;
\* when it returns false the job table and the cancellation set are unchanged.
C14_CancelReturnValue ==
    [][\A j \in JobIds :
          (ret'.op = "cancel_job" /\ ret'.id = j)
          => (/\ ret'.ok <=> (j \in DOMAIN jobs /\ jobs[j].status \in {PENDING, PROCESSING})
              /\ ret'.ok => j \in cancelled_jobs'
              /\ ~ret'.ok => (jobs' = jobs /\ cancelled_jobs' = cancelled_jobs))]_vars

\* a cancel_job call was refused for an entry in a terminal status
C14_Witness ==
    /\ ret.op = "cancel_job"
    /\ ~ret.ok
    /\ ret.id \in DOMAIN jobs
    /\ jobs[ret.id].status \in FinalStatuses
    /\ ret.id \notin cancelled_jobs

\* ---- C15: a create_job call for an id that has no entry and whose cache
\* blob is read successfully inserts an entry with status completed and
\* result the deserialized blob, schedules no execution and hands nothing to
\* the broadcast sink.
C15_CacheHitCompletes ==
    [][\A T \in job_types, P \in ParamMaps, c \in RegistryClients :
          LET j == generate_job_id(P) IN
          (/\ j \notin DOMAIN jobs
           /\ cache_exists(j)
           /\ CreateJob(T, P, c, TRUE))
          => (/\ j \in DOMAIN jobs'
              /\ jobs'[j].status = COMPLETED
              /\ jobs'[j].result = deserialize_result(cache[j])
              /\ ret'.entry = jobs'[j]
              /\ tasks' = tasks
              /\ sink' = <<>>)]_vars

\* the first call of a restarted process was answered from the cache:
\* the entry is completed and no execution was ever scheduled
C15_Witness ==
    /\ tasks = <<>>
    /\ ret.op = "create_job"
    /\ ret.ok
    /\ ret.id \in DOMAIN jobs
    /\ jobs[ret.id] = ret.entry
    /\ ret.entry.status = COMPLETED
    /\ cache_exists(ret.id)
    /\ ret.entry.result = deserialize_result(cache[ret.id])

\* ---- C16 as stated: a create_job call on an id whose entry is failed or
\* cancelled installs a fresh pending entry (no result, no error, completed_at
\* empty) and schedules exactly one new execution.
FreshEntryInstalled(j) ==
    /\ jobs'[j].status = PENDING
    /\ jobs'[j].result = None
    /\ jobs'[j].error = None
    /\ jobs'[j].completed_at = None
    /\ tasks' = Append(tasks, NewTask(j))

RetryCall(j) ==
    /\ j \in DOMAIN jobs
    /\ jobs[j].status \in {FAILED, CANCELLED}
    /\ ret'.op = "create_job"
    /\ ret'.id = j

C17_SupplantingConnectionServed ==
    [][/\ \A w \in 1..Len(conns) :
             (conns[w].pc = "accept" /\ conns'[w].pc = "close")
             => conns'[conns'[w].old_ws].transport = "down"
       /\ \A u \in undelivered' : conns'[u[1]].old_ws = 0
       /\ \A w \in 1..Len(conns) :
             (/\ conns[w].old_ws # 0
              /\ conns[w].pc = "open"
              /\ conns[conns[w].old_ws].pc = "open"
              /\ conns'[conns[w].old_ws].pc = "closed")
             => (/\ ConnectionOf(conns[w].client_id)' = ConnectionOf(conns[w].client_id)
                 /\ w \in active_connections => w \in active_connections')]_vars

\* ---- C13: the messages produced for a job reach a subscriber that is
\* connected throughout in the order they were produced: no frame is handed
\* to an open connection after a later message of the job was handed to it.
C13_DeliveredInProductionOrder ==
    \A f \in wire : ~(f.late /\ Established(f.ws))

\* ---- C18 as stated: a broadcast issued while a subscriber has no
\* connection is sent to no connection on its behalf, so the subscriber does
\* not receive that message when it reconnects.
C18_IssuedWhileAbsentNotReceived ==
    \A f \in wire : ~(f.via = "broadcast" /\ f.absent /\ Established(f.ws))

\* ---- C18 amended: a broadcast sends on behalf of a subscriber only to the
\* connection bound to it when the loop reaches its subscription (nothing when
\* it has none), and a frame is only ever the message of a broadcast that is
\* still running: nothing is stored for a later connection.
C18_SentOnlyToBoundConnection ==
    \A f \in wire :
       f.via = "broadcast"
       => (/\ f.ws # 0
           /\ ConnectionOf(f.client_id) = f.ws
           /\ \E i \in 1..Len(bcasts) :
                 /\ bcasts[i].pc = "send"
                 /\ bcasts[i].cur.ws = f.ws
                 /\ Tagged(bcasts[i].message, bcasts[i].cur.request_id) = f.msg)

\* a running broadcast skipped a subscriber that had no connection, and the
\* subscriber has reconnected while the broadcast awaits a send to another
C18_Witness ==
    \E i \in 1..Len(bcasts) :
       \E c \in bcasts[i].absent :
          /\ bcasts[i].pc = "send"
          /\ bcasts[i].cur.client_id # c
          /\ IsSubscribed(c, bcasts[i].job_id)
          /\ IndexOf(ItemsOf(bcasts[i].job_id), c) < bcasts[i].pos
          /\ ConnectionOf(c) # 0
          /\ Established(ConnectionOf(c))

\* ---- C20: a get_status request that carries a request_id and names a job
\* the registry does not hold is answered with an error reply that carries
\* that request_id.
C20_UnknownJobErrorCarriesToken ==
    (/\ recv.type = "get_status"
     /\ recv.request_id # None
     /\ recv.job_id # NoJobId
     /\ recv.job_id \notin DOMAIN jobs)
    => \E f \in wire :
          /\ f.via = "reply"
          /\ f.ws = recv.ws
          /\ f.msg.type = "error"
          /\ f.msg.request_id = recv.request_id

\* ---- C19: a frame that is not valid JSON, is JSON but no object, has an
\* unknown type or lacks its required field is answered with an error reply
\* on the same connection, and the connection stays open and registered.
BadFrame ==
    \/ recv.type \in {"invalid_json", "not_object", "unknown_type"}
    \/ recv.type = "create_job" /\ recv.task_type = None
    \/ recv.type \in {"get_status", "cancel_job"} /\ recv.job_id = NoJobId

C19_BadFrameAnsweredConnectionKept ==
    BadFrame
    => (/\ \E f \in wire :
              f.via = "reply" /\ f.ws = recv.ws /\ f.msg.type = "error"
        /\ conns[recv.ws].pc = "open"
        /\ recv.ws \in active_connections)

\* ---- C11: where the token stored for a subscription (J, C) is a non-empty
\* R, every frame a broadcast hands to C for J carries request_id = R, and the
\* reply to the create_job or get_status request that made the subscription
\* with R carries request_id = R.
BoundIdentity(w) ==
    IF w \in DOMAIN connection_client_ids THEN connection_client_ids[w] ELSE None

StoredToken(job_id, client_id) ==
    IF IsSubscribed(client_id, job_id)
    THEN ItemsOf(job_id)[IndexOf(ItemsOf(job_id), client_id)][2]
    ELSE None

Subscribing ==
    \/ recv.type = "create_job" /\ recv.task_type \in job_types
    \/ recv.type = "get_status" /\ recv.job_id # NoJobId

RequestedJob ==
    IF recv.type = "create_job" THEN generate_job_id(StripRequestId(recv.params))
    ELSE recv.job_id

C11_TokenOnBroadcastsAndReplies ==
    /\ \A f \in wire :
          (f.via = "broadcast" /\ StoredToken(f.msg.job_id, f.client_id) \notin {None, ""})
          => f.msg.request_id = StoredToken(f.msg.job_id, f.client_id)
    /\ (/\ Subscribing
        /\ recv.request_id \notin {None, ""}
        /\ StoredToken(RequestedJob, BoundIdentity(recv.ws)) = recv.request_id)
       => \E f \in wire :
             /\ f.via = "reply"
             /\ f.ws = recv.ws
             /\ f.msg.request_id = recv.request_id

Content(params) ==
    { params[i] : i \in { k \in 1..Len(params) : params[k][1] # RequestIdKey } }

C21_IdFromContentOnly ==
    [][(recv'.type = "create_job" /\ recv'.task_type \in job_types)
       => (/\ ret'.ok
           /\ \A j \in DOMAIN jobs :
                 Content(jobs[j].params) = Content(recv'.params)
                 => (/\ ret'.id = j
                     /\ jobs[j].status \in {PENDING, PROCESSING, COMPLETED}
                        => (jobs' = jobs /\ tasks' = tasks))
           /\ \A j1, j2 \in DOMAIN jobs' :
                 Content(jobs'[j1].params) = Content(jobs'[j2].params) => j1 = j2)]_vars

\* a request with a request_id key among its params, written in another key
\* order than the entry's params, was answered with the existing entry
C21_Witness ==
    /\ recv.type = "create_job"
    /\ ParamRequestId(recv.params) # None
    /\ ret.ok
    /\ ret.entry.params # StripRequestId(recv.params)
    /\ Content(ret.entry.params) = Content(recv.params)
    /\ Len(tasks) = 1

\* ---- C22: in every state, an entry's completed_at is set if and only if
\* its status is terminal (completed, failed or cancelled).
C22_CompletedAtIffTerminal ==
    \A j \in DOMAIN jobs :
       (jobs[j].completed_at # None) <=> (jobs[j].status \in FinalStatuses)

\* ---- C23: in every state, an entry's result is present exactly when its
\* status is completed, and its error is present exactly when its status is
\* failed or cancelled.
C23_ResultAndErrorMatchStatus ==
    \A j \in DOMAIN jobs :
       /\ (jobs[j].result # None) <=> (jobs[j].status = COMPLETED)
       /\ (jobs[j].error # None) <=> (jobs[j].status \in {FAILED, CANCELLED})

Executing == { t \in 1..Len(tasks) : tasks[t].pc = "executing" }

C25_AdmittedBelowCurrentBound ==
    [][Cardinality(Executing') > Cardinality(Executing)
       => Cardinality(Executing) < max_concurrency]_vars

\* ---- C26: at most one text_to_image job is inside the GPU block at any
\* instant, the lock is held exactly while a job is inside, and when the job
\* inside leaves (by an exception, cancelled or not) the lock is free and the
\* first job waiting for it is woken.
C26_GpuSectionExclusive ==
    /\ Cardinality(gpu_lock.inside) <= 1
    /\ gpu_lock.locked <=> (gpu_lock.inside # {})
    /\ (~gpu_lock.locked /\ gpu_lock.waiters # <<>>)
       => gpu_lock.woken = Head(gpu_lock.waiters)

\* a job has just failed inside the block while another waited for the
\* lock: the lock is free and the waiting job is woken
C26_Witness ==
    /\ sink # <<>>
    /\ sink[1].type = "job_status"
    /\ sink[1].status \in {FAILED, CANCELLED}
    /\ sink[1].error \in {"GENERATED", CancelledByUser}
    /\ ~gpu_lock.locked
    /\ gpu_lock.woken # 0
    /\ tasks[gpu_lock.woken].pc = "executing"

C28_CacheErrorsNotFatal ==
    [][/\ \A T \in TaskTypes, P \in ParamMaps, c \in RegistryClients \cup {None} :
            (ReadsCache(T, P) /\ CreateJob(T, P, c, FALSE))
            => (/\ jobs'[generate_job_id(P)]
                      = PendingEntry(generate_job_id(P), T, P, c)
                /\ tasks' = Append(tasks, NewTask(generate_job_id(P)))
                /\ cache' = cache)
       /\ \A j \in JobIds :
            \A t \in 1..Len(tasks), r \in Results :
              (/\ tasks[t].job_id = j
               /\ j \in DOMAIN jobs
               /\ ~is_cancelled(j)
               /\ ExecuteReturns(t, r, FALSE))
              => (/\ jobs'[j].status = COMPLETED
                  /\ jobs'[j].result = r
                  /\ sink' = <<StatusMessage(j, COMPLETED, r, None)>>)]_vars

\* a job has just completed without a blob at its path while another entry
\* is pending although a blob exists at its path
C28_Witness ==
    /\ sink # <<>>
    /\ sink[1].type = "job_status"
    /\ sink[1].status = COMPLETED
    /\ sink[1].job_id \in DOMAIN jobs
    /\ jobs[sink[1].job_id].status = COMPLETED
    /\ jobs[sink[1].job_id].result = sink[1].result
    /\ ~cache_exists(sink[1].job_id)
    /\ \E j \in DOMAIN jobs : jobs[j].status = PENDING /\ cache_exists(j)

\* ---- C29: when execute raises and the job's id is not in the cancellation
\* set, the entry becomes failed with the exception's string as error and
\* completed_at set, and exactly one job_status failed message carrying that
\* error is broadcast.
C29_RaiseMakesFailed ==
    [][\A j \in JobIds :
         \A t \in 1..Len(tasks), e \in HandlerErrors :
           (/\ tasks[t].job_id = j
            /\ j \in DOMAIN jobs
            /\ ~is_cancelled(j)
            /\ ExecuteRaises(t, e))
           => (/\ jobs'[j].status = FAILED
               /\ jobs'[j].error = e
               /\ jobs'[j].completed_at # None
               /\ Len(sink') = 1
               /\ sink'[1].type = "job_status"
               /\ sink'[1].job_id = j
               /\ sink'[1].status = FAILED
               /\ sink'[1].error = e)]_vars

\* an execution has just failed its job with the handler's error
C29_Witness ==
    /\ sink # <<>>
    /\ sink[1].type = "job_status"
    /\ sink[1].status = FAILED
    /\ sink[1].error \in HandlerErrors
    /\ sink[1].job_id \in DOMAIN jobs
    /\ jobs[sink[1].job_id].status = FAILED
    /\ jobs[sink[1].job_id].error = sink[1].error
    /\ jobs[sink[1].job_id].completed_at # None

\* ---- C30: under a fair event loop and execute calls that end, every entry
\* that is pending eventually has a terminal status, and every execution
\* that was scheduled eventually runs to its end, whatever way the
\* executions before it left (success, failure, cancellation).
C30_PendingEndsTerminal ==
    /\ \A j \in JobIds :
          (j \in DOMAIN jobs /\ jobs[j].status = PENDING)
          ~> (j \in DOMAIN jobs /\ jobs[j].status \in FinalStatuses)
    /\ \A t \in 1..MaxTasks :
          (t \in 1..Len(tasks) /\ tasks[t].pc # "done")
          ~> (t \in 1..Len(tasks) /\ tasks[t].pc = "done")

\* an execution has just failed and its permit went to a queued execution
C30_Witness ==
    /\ sink # <<>>
    /\ sink[1].type = "job_status"
    /\ sink[1].status = FAILED
    /\ \E t \in 1..Len(tasks) : tasks[t].pc = "woken"
    /\ \E t \in 1..Len(tasks) : tasks[t].pc = "done"

\* the message the step handed to the broadcast sink is a terminal job_status
TerminalEmitted(m) == m.type = "job_status" /\ m.status \in FinalStatuses

\* ---- C31: one execution emits job_status processing when it enters, then
\* only job_progress and intermediate job_status messages while it executes,
\* then exactly one terminal job_status as it ends, and nothing afterwards;
\* every message in the sink belongs to an execution in that phase.
C31_ExecutionMessageOrder ==
    [][/\ \A t \in 1..Len(tasks) :
            /\ (tasks[t].pc # "executing" /\ tasks'[t].pc = "executing")
               => (/\ tasks[t].pc \in {"start", "woken"}
                   /\ sink' = <<StatusMessage(tasks[t].job_id, PROCESSING, None, None)>>)
            /\ (tasks[t].pc \in {"start", "waiting", "woken"}
                  /\ tasks'[t].pc # "executing")
               => tasks'[t].pc \in {"start", "waiting", "woken"}
            /\ (tasks[t].pc = "executing" /\ tasks'[t].pc # "executing")
               => (/\ tasks'[t].pc = "done"
                   /\ Len(sink') = 1
                   /\ TerminalEmitted(sink'[1])
                   /\ sink'[1].job_id = tasks[t].job_id)
            /\ tasks[t].pc = "done" => tasks'[t] = tasks[t]
       /\ sink' # <<>>
          => (/\ Len(sink') = 1
              /\ \E t \in 1..Len(tasks) :
                    /\ tasks[t].job_id = sink'[1].job_id
                    /\ \/ /\ tasks[t].pc \in {"start", "woken"}
                          /\ tasks'[t].pc = "executing"
                          /\ sink'[1].type = "job_status"
                          /\ sink'[1].status = PROCESSING
                       \/ /\ tasks[t].pc = "executing"
                          /\ tasks'[t].pc = "executing"
                          /\ ~TerminalEmitted(sink'[1])
                          /\ sink'[1].type = "job_status" => sink'[1].status # PROCESSING
                       \/ /\ tasks[t].pc = "executing"
                          /\ tasks'[t].pc = "done"
                          /\ TerminalEmitted(sink'[1]))]_vars

\* an execution has just ended with its terminal message while another
\* execution is queued or running
C31_Witness ==
    /\ sink # <<>>
    /\ TerminalEmitted(sink[1])
    /\ \E t \in 1..Len(tasks) : tasks[t].pc = "done"
    /\ \E t \in 1..Len(tasks) : tasks[t].pc \in {"waiting", "woken", "executing"}

\* ---- C32 as stated: the registry mutex is never held while a file
\* operation (or a suspension) is under way.
C32_MutexNotHeldAcrossIo ==
    mutex.held => mutex.doing \notin IoOperations

\* ---- C33 as stated: the client subscribed to its jobs with the token
\* SubscribedToken; every broadcast frame handed to it carries that token,
\* also after it sent get_client_jobs while the job was pending or processing.
C33_TokenSurvivesGetClientJobs ==
    \A f \in wire :
       (f.via = "broadcast" /\ f.msg.job_id \in conns[f.ws].subs)
       => f.msg.request_id = SubscribedToken

\* ---- C34 as stated: a job's messages are queued and broadcast only while
\* a subscription for the job exists, and the processing broadcast and the
\* terminal broadcast of an execution do not end without having reached the
\* connection that requested it and is still in service.  (An execution is
\* scheduled only after the one before it ended and its processing broadcast
\* began, so a processing broadcast owed to a requester, and a terminal one
\* that ends when every execution has ended, belong to its own execution.)
C34_RequesterReceivesBroadcasts ==
    /\ \A i \in 1..Len(loopq) : ItemsOf(loopq[i].job_id) # <<>>
    /\ \A i \in 1..Len(bcasts) : ItemsOf(bcasts[i].job_id) # <<>>
    /\ \A u \in undelivered :
          ~(/\ u[2] \in conns[u[1]].subs
            /\ Established(u[1])
            /\ \/ u[3] = PROCESSING
               \/ /\ u[3] \in FinalStatuses
                  /\ \A t \in 1..Len(tasks) : tasks[t].pc = "done")

\* the executions of job j that are scheduled, queued or running
LiveExecutions(j) ==
    { t \in 1..Len(tasks) : tasks[t].job_id = j /\ tasks[t].pc # "done" }

\* ---- C35 as stated: in every state at most one execution task per job id
\* is scheduled or running.
C35_OneExecutionPerJob ==
    \A j \in JobIds : Cardinality(LiveExecutions(j)) <= 1

\* ---- C36 as stated: no cancel_job is called once the job's second
\* execution is scheduled, so from then on no step sets the re-created entry
\* to cancelled and the second execution does not end with a cancelled
\* broadcast.
C36_StaleCancelSparesRetry ==
    [][Len(tasks) = 2
       => /\ \A j \in DOMAIN jobs :
               jobs[j].status # CANCELLED => jobs'[j].status # CANCELLED
          /\ (tasks[2].pc # "done" /\ tasks'[2].pc = "done")
             => \A i \in 1..Len(sink') : sink'[i].status # CANCELLED]_vars

\* the execution of job j is in flight: the entry has left pending, no
\* terminal status is written, and a task of the job is inside execute
InFlight(j) ==
    /\ j \in DOMAIN jobs
    /\ jobs[j].status \notin FinalStatuses \cup {PENDING}
    /\ \E t \in 1..Len(tasks) : tasks[t].job_id = j /\ tasks[t].pc = "executing"

C38_SuspendedBroadcastDelivers == undelivered = {}

\* ---- C39: after any sequence of connect, disconnect, subscribe, unsubscribe
\* and broadcast steps client_subscriptions is the inverse index of
\* job_subscriptions: J is in client_subscriptions[C] exactly when C is a key
\* of job_subscriptions[J].
C39_SubscriptionTablesInverse ==
    /\ \A c \in DOMAIN client_subscriptions :
          \A j \in client_subscriptions[c] : IsSubscribed(c, j)
    /\ \A j \in DOMAIN job_subscriptions :
          \A n \in 1..Len(job_subscriptions[j]) :
             LET c == job_subscriptions[j][n][1] IN
             c \in DOMAIN client_subscriptions /\ j \in client_subscriptions[c]

\* a connection subscribed and unsubscribed again, and the subscription of a
\* second subscriber whose connection was disconnected and closed is still
\* in both tables
C39_Witness ==
    \E w \in 1..Len(conns), v \in 1..Len(conns), j \in WsJobs :
       /\ SubscriberId(w) # SubscriberId(v)
       /\ j \in conns[w].subs
       /\ ~IsSubscribed(SubscriberId(w), j)
       /\ conns[v].pc = "closed"
       /\ IsSubscribed(SubscriberId(v), j)
       /\ j \in client_subscriptions[SubscriberId(v)]

\* ---- C40: after any sequence of create_job calls by different clients
\* (deduplicated calls, retries of failed and cancelled jobs, cache hits
\* included) every entry get_client_jobs(C) returns has client_id C, and every
\* entry of the job table whose client_id is C is among them.
C40_ClientJobsAreOwned ==
    \A c \in OwnerClients :
       /\ \A e \in get_client_jobs(c) : e.client_id = c
       /\ \A j \in DOMAIN jobs : jobs[j].client_id = c => jobs[j] \in get_client_jobs(c)

====
